---------------------------- MODULE Spec2Model ----------------------------
(***************************************************************************)
(* Triggerkit: export discovery and virtual-module synthesis.              *)
(*                                                                         *)
(* Two programs of the repository are modelled over one disk:              *)
(*   - the build extension (fileCache, envVars, onBuildStart, onLoad,      *)
(*     generateVirtualModuleContent, generateFunctionTypeDeclarations);    *)
(*   - the synchronous Vite plugin (exportedFunctions, configResolved,     *)
(*     resolveId, load, handleHotUpdate).                                  *)
(*                                                                         *)
(* File names are sequences of characters, paths are sequences of names    *)
(* (relative to the working directory), file texts are sequences of        *)
(* statements, generated texts are sequences of lines.                     *)
(***************************************************************************)
EXTENDS Integers, Sequences, FiniteSets, TLC

(***************************************************************************)
(* Bounds                                                                  *)
(***************************************************************************)
\* number of writes/removals the environment performs on the disk
MaxEdits == 1

(***************************************************************************)
(* Generic helpers                                                         *)
(***************************************************************************)
Range(s) == {s[i] : i \in DOMAIN s}

RECURSIVE Flat(_)
\* Array.prototype.flat / join of a sequence of sequences
Flat(ss) == IF ss = <<>> THEN <<>> ELSE Head(ss) \o Flat(Tail(ss))

RECURSIVE Dedup(_)
\* insertion-ordered Set built from a sequence: first occurrence is kept
Dedup(s) ==
  IF s = <<>> THEN <<>>
  ELSE <<Head(s)>> \o Dedup(SelectSeq(Tail(s), LAMBDA x : x # Head(s)))

\* all orders in which a listing may return the members of S
Perms(S) ==
  {p \in [1..Cardinality(S) -> S] : \A i, j \in 1..Cardinality(S) : p[i] = p[j] => i = j}

Count(s, x) == Cardinality({i \in DOMAIN s : s[i] = x})

(***************************************************************************)
(* Characters, names and paths                                             *)
(***************************************************************************)
\* character code (ASCII) of the characters that occur in the modelled paths
Code(c) ==
  CASE c = "." -> 46 [] c = "/" -> 47
    [] c = "a" -> 97 [] c = "b" -> 98 [] c = "c" -> 99 [] c = "d" -> 100
    [] c = "e" -> 101 [] c = "i" -> 105 [] c = "l" -> 108 [] c = "o" -> 111
    [] c = "p" -> 112 [] c = "r" -> 114 [] c = "s" -> 115 [] c = "t" -> 116
    [] c = "u" -> 117 [] c = "v" -> 118 [] OTHER -> 0

\* String.prototype.endsWith
endsWith(s, suf) ==
  /\ Len(suf) <= Len(s)
  /\ SubSeq(s, Len(s) - Len(suf) + 1, Len(s)) = suf

\* String.prototype.startsWith
startsWith(s, pre) ==
  /\ Len(pre) <= Len(s)
  /\ SubSeq(s, 1, Len(pre)) = pre

\* String.prototype.includes
includes(s, pat) ==
  \E i \in 0..(Len(s) - Len(pat)) : SubSeq(s, i + 1, i + Len(pat)) = pat

RECURSIVE PathString(_)
\* the characters of a path, its names separated by "/"
PathString(p) ==
  IF p = <<>> THEN <<>>
  ELSE IF Len(p) = 1 THEN p[1]
  ELSE p[1] \o <<"/">> \o PathString(Tail(p))

RECURSIVE StrLess(_, _)
\* lexical (code unit) order of two character strings
StrLess(s, t) ==
  IF t = <<>> THEN FALSE
  ELSE IF s = <<>> THEN TRUE
  ELSE IF Code(Head(s)) # Code(Head(t)) THEN Code(Head(s)) < Code(Head(t))
  ELSE StrLess(Tail(s), Tail(t))

\* lexical order of two full paths
PathLess(p, q) == StrLess(PathString(p), PathString(q))

\* path.join(folderPath, name)
join(folderPath, name) == Append(folderPath, name)

\* path.dirname
dirname(p) == IF p = <<>> THEN <<>> ELSE SubSeq(p, 1, Len(p) - 1)

\* path.basename
basename(p) == p[Len(p)]

\* dir is a proper ancestor of (or, with orSelf, equal to) path p
IsUnder(p, dir) == Len(dir) < Len(p) /\ SubSeq(p, 1, Len(dir)) = dir

N_src == <<"s", "r", "c">>
N_lib == <<"l", "i", "b">>
N_server == <<"s", "e", "r", "v", "e", "r">>
N_routes == <<"r", "o", "u", "t", "e", "s">>
N_api == <<"a", "p", "i">>
N_a_ts == <<"a", ".", "t", "s">>
N_b_ts == <<"b", ".", "t", "s">>
N_c_ts == <<"c", ".", "t", "s">>
N_a_test_ts == <<"a", ".", "t", "e", "s", "t", ".", "t", "s">>

Ext_ts == <<".", "t", "s">>
Ext_js == <<".", "j", "s">>

D_src == <<N_src>>
D_lib == <<N_src, N_lib>>
D_server == <<N_src, N_lib, N_server>>
D_api == <<N_src, N_routes, N_api>>

F_a == <<N_src, N_lib, N_a_ts>>
F_b == <<N_src, N_lib, N_b_ts>>
F_c == <<N_src, N_lib, N_server, N_c_ts>>
F_t == <<N_src, N_lib, N_a_test_ts>>

\* the files the project may hold, and the directories that exist on disk
\* (src/routes/api is configured by default but is not part of this project;
\* src/lib/a.test.ts does not exist at first)
Files == {F_a, F_b, F_c, F_t}
SourceFiles == {F_a, F_b, F_c}
Dirs == {D_src, D_lib, D_server}


(***************************************************************************)
(* File texts: a text is a sequence of statements                          *)
(***************************************************************************)
ENV_PRIVATE == "$env/static/private"
ENV_PUBLIC == "$env/static/public"

NoStmt ==
  [kind |-> "other", form |-> "", name |-> "", isAsync |-> FALSE,
   names |-> <<>>, alias |-> <<>>, from |-> "", ws1 |-> TRUE, ws2 |-> TRUE,
   ws3 |-> TRUE, returnType |-> <<>>]

\* import<ws1>{ names }<ws2>from<ws3>'from'   (wsN: some whitespace is present)
NamedImport(ws1, ws2, ws3, names, from) ==
  [NoStmt EXCEPT !.kind = "import", !.form = "named", !.names = names,
                 !.from = from, !.ws1 = ws1, !.ws2 = ws2, !.ws3 = ws3]

\* import * as name from 'from'
NamespaceImport(name, from) ==
  [NoStmt EXCEPT !.kind = "import", !.form = "namespace", !.name = name, !.from = from]

\* export [async] function name(...) { ... }
FunctionDecl(name, isAsync) ==
  [NoStmt EXCEPT !.kind = "function", !.form = "decl", !.name = name, !.isAsync = isAsync]

\* export const name = [async] (...) => ...
ArrowConst(name, isAsync) ==
  [NoStmt EXCEPT !.kind = "function", !.form = "arrow", !.name = name, !.isAsync = isAsync]

\* a type is the sequence of its type constructors, outermost first:
\* Promise<User> is <<"Promise", "User">>; no annotation is <<>>
T_any == <<"any">>
PromiseOf(returnType) == <<"Promise">> \o returnType

\* export [async] function name(...): returnType { ... }
TypedFunctionDecl(name, isAsync, returnType) ==
  [FunctionDecl(name, isAsync) EXCEPT !.returnType = returnType]

\* export const name = [async] (...): returnType => ...
TypedArrowConst(name, isAsync, returnType) ==
  [ArrowConst(name, isAsync) EXCEPT !.returnType = returnType]

\* export const name = [async] function(...): returnType { ... }
FunctionExpr(name, isAsync, returnType) ==
  [NoStmt EXCEPT !.kind = "function", !.form = "funcexpr", !.name = name,
                 !.isAsync = isAsync, !.returnType = returnType]

\* export class name { ... }
ClassDecl(name) == [NoStmt EXCEPT !.kind = "class", !.name = name]

\* export const name: T = value
ConstDecl(name) == [NoStmt EXCEPT !.kind = "const", !.name = name]

\* a declaration without `export`: [async] function name(...): returnType { },
\* const name = [async] (...) => ..., class name { }, const name = value
LocalDecl(form, name, isAsync, returnType) ==
  [NoStmt EXCEPT !.kind = "local", !.form = form, !.name = name,
                 !.isAsync = isAsync, !.returnType = returnType]

\* export { names[1] as alias[1], ... }; `a` alone is `a as a`
ExportList(names, alias) ==
  [NoStmt EXCEPT !.kind = "exportlist", !.names = names, !.alias = alias]

\* text that is not valid TypeScript (an unfinished edit)
SyntaxError == [NoStmt EXCEPT !.kind = "error"]

\* const { names } = process.env;
EnvRead(names) == [NoStmt EXCEPT !.kind = "envread", !.names = names]

\* the texts a project file may hold
TextOf(id) ==
  CASE id = 1 -> << FunctionDecl("helper", FALSE) >>
    [] id = 2 -> << NamedImport(TRUE, TRUE, TRUE, <<"API_KEY">>, ENV_PRIVATE),
                    TypedArrowConst("getUsers", TRUE, <<"Promise", "User">>),
                    FunctionDecl("helper", TRUE) >>
    [] id = 3 -> << NamedImport(TRUE, TRUE, TRUE, <<"DB_URL", "API_KEY">>, ENV_PUBLIC),
                    ClassDecl("AuthService"),
                    ConstDecl("LIMIT"),
                    TypedFunctionDecl("verify", FALSE, <<"boolean">>) >>
    [] id = 4 -> << NamedImport(FALSE, TRUE, FALSE, <<"TOKEN">>, ENV_PRIVATE),
                    TypedFunctionDecl("login", TRUE, <<"Promise", "Session">>),
                    FunctionExpr("logout", TRUE, <<"Promise", "void">>) >>
    [] id = 5 -> << FunctionDecl("draft", FALSE), SyntaxError >>
    [] id = 6 -> << NoStmt >>
    [] OTHER -> << >>

TextIds == 1..6

(***************************************************************************)
(* Environment-import transform and extraction (build extension)           *)
(***************************************************************************)
\* /import\s+\{\s*([^}]+)\s*\}\s+from\s+['"](\$env\/static\/(?:public|private))['"]/g
EnvImportRegex(st) ==
  /\ st.kind = "import"
  /\ st.form = "named"
  /\ st.ws1 /\ st.ws2 /\ st.ws3
  /\ st.from \in {ENV_PUBLIC, ENV_PRIVATE}

\* every match of the regex is replaced by `const { a, b } = process.env;\n`
transformSvelteKitEnvImports(source) ==
  [i \in DOMAIN source |->
     IF EnvImportRegex(source[i]) THEN EnvRead(source[i].names) ELSE source[i]]

\* /import\s*{\s*([^}]+)\s*}\s*from\s*['"](\$env\/static\/(?:private|public))['"];?/g
transformEnvImports(code) ==
  [i \in DOMAIN code |->
     IF /\ code[i].kind = "import"
        /\ code[i].form = "named"
        /\ code[i].from \in {ENV_PUBLIC, ENV_PRIVATE}
     THEN EnvRead(code[i].names)
     ELSE code[i]]

RECURSIVE extractEnvironmentVariables_pushAll(_, _)
\* the names collected in an array: a name mentioned twice is kept twice
extractEnvironmentVariables_pushAll(source, envVars) ==
  IF source = <<>> THEN envVars
  ELSE extractEnvironmentVariables_pushAll(
         Tail(source),
         IF EnvImportRegex(Head(source))
         THEN envVars \o Head(source).names
         ELSE envVars)

RECURSIVE extractEnvironmentVariables(_, _)
\* adds to the Set envVars the names of every regex match in source
extractEnvironmentVariables(source, envVars) ==
  IF source = <<>> THEN envVars
  ELSE extractEnvironmentVariables(
         Tail(source),
         IF EnvImportRegex(Head(source))
         THEN Dedup(envVars \o Head(source).names)
         ELSE envVars)

Item(name, type, isAsync, form) ==
  [name |-> name, type |-> type, isAsync |-> isAsync, form |-> form,
   returnType |-> <<>>]

ItemNames(items) == [i \in DOMAIN items |-> items[i].name]

RECURSIVE PushNew(_, _)
\* if (!exportedItems.some(item => item.name === name)) exportedItems.push(...)
PushNew(items, cands) ==
  IF cands = <<>> THEN items
  ELSE PushNew(
         IF Head(cands).name \in Range(ItemNames(items)) THEN items
         ELSE Append(items, Head(cands)),
         Tail(cands))

StmtsOf(content, kind, form) ==
  SelectSeq(content, LAMBDA st : st.kind = kind /\ st.form = form)

\* the return type the function patterns put into the signature
SignatureReturnType(st) ==
  LET returnType == IF st.returnType # <<>> THEN st.returnType ELSE T_any
  IN CASE st.kind # "function" -> <<>>
       \* pattern 1: export [async] function name(...): ReturnType
       [] st.form = "decl" -> IF st.isAsync THEN PromiseOf(returnType) ELSE returnType
       \* pattern 2: export const name = [async] (...): ReturnType =>
       [] st.form = "arrow" /\ st.returnType # <<>> -> returnType
       \* pattern 4: export const name = [async] function(...): ReturnType
       [] st.form = "funcexpr" -> IF st.isAsync THEN PromiseOf(returnType) ELSE returnType
       \* pattern 5: export const name = [async] (...) =>
       [] OTHER -> IF st.isAsync THEN PromiseOf(T_any) ELSE T_any

AsItems(stmts, type) ==
  [i \in DOMAIN stmts |->
     [Item(stmts[i].name, type, stmts[i].isAsync, stmts[i].form)
        EXCEPT !.returnType = SignatureReturnType(stmts[i])]]

\* the function patterns, tried one after the other over the whole text:
\* `export [async] function name(` first, the `export const name = ` forms after
FunctionMatches(content) ==
  AsItems(StmtsOf(content, "function", "decl"), "function")
    \o AsItems(SelectSeq(StmtsOf(content, "function", "arrow"),
                         LAMBDA st : st.returnType # <<>>), "function")
    \o AsItems(StmtsOf(content, "function", "funcexpr"), "function")
    \o AsItems(SelectSeq(StmtsOf(content, "function", "arrow"),
                         LAMBDA st : st.returnType = <<>>), "function")

\* new RegExp(`(?:abstract\\s+)?class\\s+${exportName}\\s*[<{]`).test(content)
HasClassNamed(content, exportName) ==
  \E i \in DOMAIN content :
    /\ content[i].name = exportName
    /\ \/ content[i].kind = "class"
       \/ content[i].kind = "local" /\ content[i].form = "class"

\* new RegExp(`(?:function\\s+${exportName}|const\\s+${exportName}\\s*=\\s*
\*              (?:async\\s+)?(?:function|\\())`).test(content)
HasFunctionNamed(content, exportName) ==
  \E i \in DOMAIN content :
    /\ content[i].name = exportName
    /\ \/ content[i].kind = "function"
       \/ content[i].kind = "local" /\ content[i].form \in {"decl", "arrow", "funcexpr"}

RECURSIVE ExportListNames(_, _, _, _)
\* the loop over the names of the `export { ... }` statements: each entry is
\* cut at ` as `, and the part before it is looked up
ExportListNames(exportedItems, exports, content, includeTypes) ==
  IF exports = <<>> THEN exportedItems
  ELSE LET exportName == Head(exports)
           next ==
             IF exportName \in Range(ItemNames(exportedItems)) THEN exportedItems
             ELSE IF includeTypes.classes /\ HasClassNamed(content, exportName)
                  THEN Append(exportedItems, Item(exportName, "class", FALSE, "list"))
             ELSE IF includeTypes.functions /\ HasFunctionNamed(content, exportName)
                  THEN Append(exportedItems,
                              [Item(exportName, "function", FALSE, "list")
                                 EXCEPT !.returnType = T_any])
             ELSE exportedItems
       IN ExportListNames(next, Tail(exports), content, includeTypes)

extractExportedItems(content, includeTypes) ==
  LET fns == IF includeTypes.functions
             THEN PushNew(<<>>, FunctionMatches(content)) ELSE <<>>
      cls == IF includeTypes.classes
             THEN fns \o AsItems(StmtsOf(content, "class", ""), "class") ELSE fns
      cns == IF includeTypes.constants \/ includeTypes.variables
             THEN PushNew(cls, AsItems(StmtsOf(content, "const", ""), "const")) ELSE cls
      exportStatements == SelectSeq(content, LAMBDA st : st.kind = "exportlist")
  IN ExportListNames(cns, Flat([i \in DOMAIN exportStatements |-> exportStatements[i].names]),
                     content, includeTypes)

\* the same function patterns, whatever includeTypes says; no class, no constant
extractFunctionSignatures(content) == PushNew(<<>>, FunctionMatches(content))

(***************************************************************************)
(* The disk                                                                *)
(***************************************************************************)
\* names of the entries of directory dir on disk d
Entries(d, dir) ==
  {basename(f) : f \in {g \in Files : d[g].exists /\ dirname(g) = dir}}
    \cup {basename(x) : x \in {y \in Dirs : dirname(y) = dir}}

\* fs.promises.readdir: every directory is listed in an order the file
\* system chooses
Listings(d) ==
  {(D_src :> a) @@ (D_lib :> b) @@ (D_server :> c) :
     a \in Perms(Entries(d, D_src)),
     b \in Perms(Entries(d, D_lib)),
     c \in Perms(Entries(d, D_server))}

\* fs.existsSync on a directory
existsSync(dirPath) == dirPath \in Dirs

(***************************************************************************)
(* Map<string, CachedFile> and scanning (build extension)                  *)
(***************************************************************************)
CachedFile(path, lastModified, content) ==
  [path |-> path, lastModified |-> lastModified, content |-> content]

CachePaths(cache) == [i \in DOMAIN cache |-> cache[i].path]

\* Map.prototype.has
MapHas(cache, path) == \E i \in DOMAIN cache : cache[i].path = path

\* Map.prototype.get, for a key the map has
MapGet(cache, path) == cache[CHOOSE i \in DOMAIN cache : cache[i].path = path]

\* Map.prototype.set: a known key keeps its position, a new key goes last
MapSet(cache, entry) ==
  IF MapHas(cache, entry.path)
  THEN [i \in DOMAIN cache |-> IF cache[i].path = entry.path THEN entry ELSE cache[i]]
  ELSE Append(cache, entry)

IsExcludedName_exact(name, excludePatterns) ==
  \E i \in DOMAIN excludePatterns : name = excludePatterns[i]

\* excludePatterns.some(pattern => file.name.includes(pattern))
IsExcludedName(name, excludePatterns) ==
  \E i \in DOMAIN excludePatterns : includes(name, excludePatterns[i])

\* filePatterns.some(ext => file.name.endsWith(ext))
hasMatchingExtension(name, filePatterns) ==
  \E i \in DOMAIN filePatterns : endsWith(name, filePatterns[i])

\* the text id of a file whose content the process may not read:
\* fs.readFileSync throws
Unreadable == 0

\* fs.readFileSync(f) throws: the file is gone or may not be read
ReadThrows(d, f) == ~d[f].exists \/ d[f].text = Unreadable

\* the body of the `if (hasMatchingExtension)` branch for one file that
\* fs.statSync finds; a failing read is caught and logged for the file
ScanExportFile(fullPath, d, st, opts) ==
  LET currentLastModified == d[fullPath].mtime
      stale == \/ ~MapHas(st.cache, fullPath)
               \/ currentLastModified # MapGet(st.cache, fullPath).lastModified
      transformedContent == transformSvelteKitEnvImports(TextOf(d[fullPath].text))
      exportedItems == extractExportedItems(transformedContent, opts.includeTypes)
  IN IF ~stale THEN st
     ELSE IF d[fullPath].text = Unreadable
          THEN [st EXCEPT !.warned = @ \cup {fullPath}]
     ELSE [st EXCEPT
             !.reads = @ \cup {fullPath},
             !.cache = IF exportedItems # <<>>
                       THEN MapSet(@, CachedFile(fullPath, currentLastModified,
                                                 transformedContent))
                       ELSE @]

RECURSIVE scanFolderForExports(_, _, _, _, _)
RECURSIVE ScanExportEntries(_, _, _, _, _, _)
ScanExportEntries(folderPath, files, ls, d, st, opts) ==
  IF files = <<>> THEN st
  ELSE LET fullPath == join(folderPath, Head(files))
           statThrows == /\ ~IsExcludedName(Head(files), opts.exclude)
                         /\ fullPath \notin Dirs
                         /\ hasMatchingExtension(Head(files), opts.filePatterns)
                         /\ ~d[fullPath].exists
           st1 == IF IsExcludedName(Head(files), opts.exclude) THEN st
                  ELSE IF fullPath \in Dirs
                       THEN scanFolderForExports(fullPath, ls, d, st, opts)
                  ELSE IF hasMatchingExtension(Head(files), opts.filePatterns)
                       THEN ScanExportFile(fullPath, d, st, opts)
                  ELSE st
       \* fs.statSync of a listed file that is gone throws out of the loop,
       \* into the catch of this folder: its remaining entries are skipped
       IN IF statThrows THEN [st EXCEPT !.warned = @ \cup {folderPath}]
          ELSE ScanExportEntries(folderPath, Tail(files), ls, d, st1, opts)

\* st: the cache, the env-var Set and the files whose content was read so far
scanFolderForExports(folderPath, ls, d, st, opts) ==
  ScanExportEntries(folderPath, ls[folderPath], ls, d, st, opts)

RECURSIVE scanFolderForEnvVars(_, _, _, _, _)
RECURSIVE ScanEnvEntries(_, _, _, _, _, _)
ScanEnvEntries(dirPath, files, ls, d, st, opts) ==
  IF files = <<>> THEN st
  ELSE LET fullPath == join(dirPath, Head(files))
           st1 == IF IsExcludedName(Head(files), opts.exclude) THEN st
                  ELSE IF fullPath \in Dirs
                       THEN scanFolderForEnvVars(fullPath, ls, d, st, opts)
                  ELSE IF hasMatchingExtension(Head(files), opts.filePatterns)
                       THEN IF ReadThrows(d, fullPath)
                            THEN [st EXCEPT !.warned = @ \cup {fullPath}]
                            ELSE [st EXCEPT
                                    !.reads = @ \cup {fullPath},
                                    !.env = extractEnvironmentVariables(
                                              TextOf(d[fullPath].text), @)]
                  ELSE st
       IN ScanEnvEntries(dirPath, Tail(files), ls, d, st1, opts)

scanFolderForEnvVars(dirPath, ls, d, st, opts) ==
  ScanEnvEntries(dirPath, ls[dirPath], ls, d, st, opts)

RECURSIVE ScanIncludeDirs(_, _, _, _, _)
\* the `for (const includeDir of resolvedOptions.includeDirs)` loop
ScanIncludeDirs(includeDirs, ls, d, st, opts) ==
  IF includeDirs = <<>> THEN st
  ELSE LET dirPath == Head(includeDirs)
           st1 == IF ~existsSync(dirPath)
                  THEN [st EXCEPT !.warned = @ \cup {dirPath}]
                  ELSE scanFolderForExports(dirPath, ls, d,
                         scanFolderForEnvVars(dirPath, ls, d, st, opts), opts)
       IN ScanIncludeDirs(Tail(includeDirs), ls, d, st1, opts)

(***************************************************************************)
(* Module synthesis (build extension): a text is a sequence of lines       *)
(***************************************************************************)
Line(k, names, path) ==
  [k |-> k, names |-> names, path |-> path, returnType |-> <<>>]

WordChars ==
  {"a", "b", "c", "d", "e", "f", "g", "h", "i", "j", "k", "l", "m", "n", "o",
   "p", "q", "r", "s", "t", "u", "v", "w", "x", "y", "z",
   "0", "1", "2", "3", "4", "5", "6", "7", "8", "9", "_"}

\* str.replace(/\.(ts|js)$/, '')
StripExtension(str) ==
  IF endsWith(str, Ext_ts) \/ endsWith(str, Ext_js)
  THEN SubSeq(str, 1, Len(str) - 3)
  ELSE str

\* relPath.replace(/\.(ts|js)$/, '')
ImportPath(relPath) ==
  IF relPath = <<>> THEN relPath
  ELSE [relPath EXCEPT ![Len(relPath)] = StripExtension(@)]

\* name.replace(/[\/\\]/g, '_') followed by name.replace(/[^a-zA-Z0-9_]/g, '_')
Sanitize(str) == [i \in DOMAIN str |-> IF str[i] \in WordChars THEN str[i] ELSE "_"]

\* path.dirname of a relative path: "." when the path has a single name
FolderOf(relPath) == IF Len(relPath) <= 1 THEN <<<<".">>>> ELSE dirname(relPath)

FileWithExports(filePath, exportedItems) ==
  [path |-> filePath, relPath |-> filePath, exportedItems |-> exportedItems]

\* filesByFolder[dirName].set(filePath, info), creating the folder at its
\* first file
AddToFolder(filesByFolder, dirName, info) ==
  IF \E i \in DOMAIN filesByFolder : filesByFolder[i].folder = dirName
  THEN [i \in DOMAIN filesByFolder |->
          IF filesByFolder[i].folder = dirName
          THEN [filesByFolder[i] EXCEPT !.files = Append(@, info)]
          ELSE filesByFolder[i]]
  ELSE Append(filesByFolder, [folder |-> dirName, files |-> <<info>>])

RECURSIVE OrganizeByFolder(_, _, _)
\* the loop over fileCache.entries() that fills filesByFolder
OrganizeByFolder(cache, includeTypes, filesByFolder) ==
  IF cache = <<>> THEN filesByFolder
  ELSE LET cachedFile == Head(cache)
           exportedItems == extractExportedItems(cachedFile.content, includeTypes)
       IN OrganizeByFolder(
            Tail(cache), includeTypes,
            IF cachedFile.content = <<>> \/ exportedItems = <<>> THEN filesByFolder
            ELSE AddToFolder(filesByFolder, FolderOf(cachedFile.path),
                             FileWithExports(cachedFile.path, exportedItems)))

AllFiles(filesByFolder) ==
  Flat([i \in DOMAIN filesByFolder |-> filesByFolder[i].files])

FunctionNamesOf(fileInfo) ==
  ItemNames(SelectSeq(fileInfo.exportedItems, LAMBDA item : item.type = "function"))

ImportLines(files) ==
  [i \in DOMAIN files |->
     Line("import", ItemNames(files[i].exportedItems), ImportPath(files[i].relPath))]

FolderBlock(entry) ==
  LET allExportsInFolder ==
        Flat([i \in DOMAIN entry.files |-> ItemNames(entry.files[i].exportedItems)])
  IN <<Line("folderhdr", <<>>, entry.folder)>>
       \o ImportLines(entry.files)
       \o (IF allExportsInFolder # <<>>
           THEN <<Line("export", allExportsInFolder, <<>>)>> ELSE <<>>)

FunctionsObject(allFunctions) ==
  IF allFunctions # <<>> THEN <<Line("functions", allFunctions, <<>>)>> ELSE <<>>

generateIndividualExports(filesByFolder, moduleContent) ==
  LET files == AllFiles(filesByFolder)
      allFunctions == Flat([i \in DOMAIN files |-> FunctionNamesOf(files[i])])
  IN moduleContent
       \o Flat([i \in DOMAIN filesByFolder |-> FolderBlock(filesByFolder[i])])
       \o FunctionsObject(allFunctions)

\* the group an item of file fileInfo in folder `folder` goes to
GroupName(folder, fileInfo, strategy) ==
  LET base == IF strategy.groupBy = "file"
              THEN StripExtension(basename(fileInfo.relPath))
              ELSE PathString(folder)
  IN Sanitize(IF strategy.groupPrefix # <<>>
              THEN strategy.groupPrefix \o <<"_">> \o base
              ELSE base)

\* groups[groupName].push(item.name) for every name of names
AddToGroups(groups, groupName, names) ==
  IF names = <<>> THEN groups
  ELSE IF \E i \in DOMAIN groups : groups[i].group = groupName
  THEN [i \in DOMAIN groups |->
          IF groups[i].group = groupName
          THEN [groups[i] EXCEPT !.names = @ \o names]
          ELSE groups[i]]
  ELSE Append(groups, [group |-> groupName, names |-> names])

RECURSIVE OrganizeGroups(_, _, _, _)
OrganizeGroups(filesByFolder, k, strategy, groups) ==
  IF k > Len(AllFiles(filesByFolder)) THEN groups
  ELSE LET fileInfo == AllFiles(filesByFolder)[k]
           folder == FolderOf(fileInfo.relPath)
       IN OrganizeGroups(filesByFolder, k + 1, strategy,
                         AddToGroups(groups, GroupName(folder, fileInfo, strategy),
                                     ItemNames(fileInfo.exportedItems)))

\* the type of the first item called name, searching the files in order
IsFunctionName(filesByFolder, name) ==
  LET items == Flat([i \in DOMAIN AllFiles(filesByFolder) |->
                       AllFiles(filesByFolder)[i].exportedItems])
      found == SelectSeq(items, LAMBDA item : item.name = name)
  IN found # <<>> /\ found[1].type = "function"

\* the part of the grouped text after the line `// Imports`
GroupedAfterImportsHeader(filesByFolder, strategy) ==
  LET groups == OrganizeGroups(filesByFolder, 1, strategy, <<>>)
      allExports == Flat([i \in DOMAIN groups |-> groups[i].names])
      allFunctions == SelectSeq(allExports,
                                LAMBDA name : IsFunctionName(filesByFolder, name))
  IN ImportLines(AllFiles(filesByFolder))
       \o <<Line("groupshdr", <<>>, <<>>)>>
       \o [i \in DOMAIN groups |-> Line("group", groups[i].names, <<groups[i].group>>)]
       \o <<Line("export", allExports, <<>>)>>
       \o FunctionsObject(allFunctions)

generateGroupedExports(filesByFolder, moduleContent, strategy) ==
  moduleContent
    \o <<Line("importshdr", <<>>, <<>>)>>
    \o GroupedAfterImportsHeader(filesByFolder, strategy)

\* mixed mode that forgets the text built before the strategy was applied
generateMixedExports_noPrelude(filesByFolder, moduleContent, strategy) ==
  generateIndividualExports(filesByFolder, <<>>)
    \o <<Line("additionalhdr", <<>>, <<>>)>>
    \o GroupedAfterImportsHeader(filesByFolder, strategy)

\* individualContent + '\n// Additional grouped exports\n'
\*   + groupedContent.split('// Imports\n')[1]
generateMixedExports(filesByFolder, moduleContent, strategy) ==
  moduleContent
    \o generateIndividualExports(filesByFolder, <<>>)
    \o <<Line("additionalhdr", <<>>, <<>>)>>
    \o GroupedAfterImportsHeader(filesByFolder, strategy)

generateVirtualModuleContent(cache, env, opts) ==
  LET moduleContent ==
        <<Line("hdr", <<>>, <<>>)>>
          \o (IF env # <<>>
              THEN <<Line("envhdr", <<>>, <<>>)>>
                     \o [i \in DOMAIN env |-> Line("envconst", <<env[i]>>, <<>>)]
              ELSE <<>>)
      filesByFolder == OrganizeByFolder(cache, opts.includeTypes, <<>>)
      mode == opts.exportStrategy.mode
  IN IF mode = "individual" THEN generateIndividualExports(filesByFolder, moduleContent)
     ELSE IF mode = "grouped"
          THEN generateGroupedExports(filesByFolder, moduleContent, opts.exportStrategy)
     ELSE IF mode = "mixed"
          THEN generateMixedExports(filesByFolder, moduleContent, opts.exportStrategy)
     ELSE moduleContent

(***************************************************************************)
(* Declaration file (build extension)                                      *)
(***************************************************************************)
DeclarationsOfFile(cachedFile) ==
  LET functionSignatures == extractFunctionSignatures(cachedFile.content)
  IN IF functionSignatures = <<>> THEN <<>>
     ELSE <<Line("dfilehdr", <<>>, <<basename(cachedFile.path)>>)>>
            \o [i \in DOMAIN functionSignatures |->
                  [Line(IF functionSignatures[i].form = "decl"
                        THEN "declfunction" ELSE "declconst",
                        <<functionSignatures[i].name>>, <<>>)
                     EXCEPT !.returnType = functionSignatures[i].returnType]]

DeclarationsOfFolder(entry) ==
  <<Line("dfolderhdr", <<>>, entry.folder)>>
    \o Flat([i \in DOMAIN entry.files |-> DeclarationsOfFile(entry.files[i])])

RECURSIVE OrganizePathsByFolder(_, _)
\* filesByFolder[dirName].push(filePath) for every cached file with content
OrganizePathsByFolder(cache, filesByFolder) ==
  IF cache = <<>> THEN filesByFolder
  ELSE OrganizePathsByFolder(
         Tail(cache),
         IF Head(cache).content = <<>> THEN filesByFolder
         ELSE AddToFolder(filesByFolder, FolderOf(Head(cache).path), Head(cache)))

RECURSIVE EnvVarsOfCache(_, _)
\* extractEnvironmentVariables over the content of every cached file
EnvVarsOfCache(cache, env) ==
  IF cache = <<>> THEN env
  ELSE EnvVarsOfCache(Tail(cache), extractEnvironmentVariables(Head(cache).content, env))

\* the text written to src/virtual-triggerkit.d.ts
generateFunctionTypeDeclarations(cache) ==
  LET filesByFolder == OrganizePathsByFolder(cache, <<>>)
      body == Flat([i \in DOMAIN filesByFolder |-> DeclarationsOfFolder(filesByFolder[i])])
      allFunctionNames ==
        Flat([i \in DOMAIN body |->
                IF body[i].k \in {"declfunction", "declconst"} THEN body[i].names ELSE <<>>])
      env == EnvVarsOfCache(cache, <<>>)
  IN <<Line("dhdr", <<>>, <<>>)>>
       \o body
       \o (IF env # <<>>
           THEN <<Line("denvhdr", <<>>, <<>>)>>
                  \o [i \in DOMAIN env |-> Line("declenv", <<env[i]>>, <<>>)]
           ELSE <<>>)
       \o (IF allFunctionNames # <<>>
           THEN <<Line("declfunctions", allFunctionNames, <<>>)>> ELSE <<>>)
       \o <<Line("dclose", <<>>, <<>>)>>

(***************************************************************************)
(* State                                                                   *)
(***************************************************************************)
VARIABLES
  disk,                 \* the project files: existence, text, modification time
  edits,                \* number of writes and removals so far
  pending,              \* changed files the watcher has not reported yet
  options,              \* resolvedOptions of the running program
  fileCache,            \* build extension: Map<string, CachedFile>
  envVars,              \* build extension: Set<string>, in insertion order
  pluginRegistered,     \* build extension: context.registerPlugin was called
  declarationContent,   \* build extension: text of src/virtual-triggerkit.d.ts
  loadResult,           \* build extension: what onLoad returned in this build
  warned,               \* paths the last scan logged a warning for
  reads,                \* files whose content the last scan pass read
  scannedDisk,          \* a scan pass has run and the disk is as that pass saw it
  passText,             \* module text of the last pass over the present disk
  prevPassText,         \* module text of the pass before it over the same disk
  exportedFunctions,    \* Vite plugin: the aggregate
  resolvedIncludeDirs,  \* Vite plugin
  globbed,              \* Vite plugin: what globSync returned, per include dir
  hookResult,           \* Vite plugin: the last resolveId or load call and its result
  scan,                 \* build extension: the scan pass in progress, between awaits
  passes,               \* async Vite plugin: the updateExportedFunctions calls in flight
  hot,                  \* async Vite plugin: the handleHotUpdate call in flight
  versions,             \* async Vite plugin: what each file has held since the
                        \* start: text ids, Gone
  fileText,             \* extraction alone: the text handed to extractExportedItems
  extracted,            \* extraction alone: whether it ran, and the items it returned
  cachedModuleContent,  \* esbuild plugin: string | null
  esbuildLoad,          \* esbuild plugin: the onLoad call in flight and the last result
  succeeded,            \* esbuild plugin: what the first successful load of this
                        \* build returned
  virtualModuleStore,   \* module store: timestamp and modules[VIRTUAL_MODULE_ID]
  now,                  \* module store: Date.now(), in ms
  storeLoad,            \* module store: the onLoad call in flight and the last result
  lastAttempt           \* module store: when the last scan attempt began, 0 for none

diskVars == <<disk, edits, pending>>
ghostVars == <<scannedDisk, passText, prevPassText, versions>>
extVars ==
  <<fileCache, envVars, pluginRegistered, declarationContent, loadResult, warned, reads>>
viteVars == <<exportedFunctions, resolvedIncludeDirs, globbed, hookResult>>
asyncVars == <<passes, hot>>
extractVars == <<fileText, extracted>>
esbuildVars == <<cachedModuleContent, esbuildLoad, succeeded>>
storeVars == <<virtualModuleStore, now, storeLoad, lastAttempt>>
restVars == <<extractVars, esbuildVars, storeVars>>
taskVars == <<scan, asyncVars, restVars>>
vars == <<diskVars, ghostVars, options, extVars, viteVars, taskVars>>

(***************************************************************************)
(* The environment: the developer edits the project                        *)
(***************************************************************************)
FileState(exists, text, mtime) == [exists |-> exists, text |-> text, mtime |-> mtime]

NoText == [valid |-> FALSE, text |-> <<>>]

\* in versions: the file did not exist
Gone == 0 - 1

InitDisk ==
  /\ disk = (F_a :> FileState(TRUE, 1, 0)) @@ (F_b :> FileState(TRUE, 2, 0))
              @@ (F_c :> FileState(TRUE, 3, 0)) @@ (F_t :> FileState(FALSE, 6, 0))
  /\ edits = 0
  /\ pending = {}
  /\ scannedDisk = FALSE
  /\ passText = NoText
  /\ prevPassText = NoText
  /\ versions = [f \in Files |-> {IF disk[f].exists THEN disk[f].text ELSE Gone}]

\* a file is saved (created or overwritten): new text, later modification time
WriteFile(f, t) ==
  /\ edits < MaxEdits
  /\ disk' = [disk EXCEPT ![f] = FileState(TRUE, t, @.mtime + 1)]
  /\ edits' = edits + 1
  /\ pending' = pending \cup {f}
  /\ scannedDisk' = FALSE
  /\ passText' = NoText
  /\ prevPassText' = NoText

\* a file is deleted
RemoveFile(f) ==
  /\ edits < MaxEdits
  /\ disk[f].exists
  /\ disk' = [disk EXCEPT ![f] = FileState(FALSE, @.text, @.mtime)]
  /\ edits' = edits + 1
  /\ pending' = pending
  /\ scannedDisk' = FALSE
  /\ passText' = NoText
  /\ prevPassText' = NoText

(***************************************************************************)
(* Build extension                                                         *)
(***************************************************************************)
Str_test == <<"t", "e", "s", "t", ".">>
Str_spec == <<"s", "p", "e", "c", ".">>
Str_d_ts == <<".", "d", ".", "t", "s">>
Str_api == <<"a", "p", "i">>

IncludeTypes(functions, classes, constants) ==
  [functions |-> functions, classes |-> classes, constants |-> constants,
   variables |-> FALSE]

ExportStrategy(mode, groupBy, groupPrefix) ==
  [mode |-> mode, groupBy |-> groupBy, groupPrefix |-> groupPrefix]

\* resolvedOptions for given includeDirs, exportStrategy and includeTypes;
\* filePatterns and exclude keep their defaults
ResolvedOptions(includeDirs, exportStrategy, includeTypes) ==
  [includeDirs |-> includeDirs,
   filePatterns |-> <<Ext_ts, Ext_js>>,
   exclude |-> <<Str_test, Str_spec, Str_d_ts>>,
   exportStrategy |-> exportStrategy,
   includeTypes |-> includeTypes]

\* options?.exclude given by the user
WithExclude(opts, exclude) == [opts EXCEPT !.exclude = exclude]

\* the configurations explored; the last one excludes the directory `server`
ExtConfigs ==
  { ResolvedOptions(<<D_lib>>, ExportStrategy("individual", "folder", <<>>),
                    IncludeTypes(TRUE, TRUE, FALSE)),
    ResolvedOptions(<<D_api, D_lib>>, ExportStrategy("individual", "folder", <<>>),
                    IncludeTypes(TRUE, TRUE, TRUE)),
    ResolvedOptions(<<D_lib, D_server>>, ExportStrategy("mixed", "file", Str_api),
                    IncludeTypes(TRUE, TRUE, FALSE)),
    ResolvedOptions(<<D_server, D_lib>>, ExportStrategy("grouped", "folder", <<>>),
                    IncludeTypes(FALSE, TRUE, TRUE)),
    WithExclude(ResolvedOptions(<<D_lib>>, ExportStrategy("individual", "folder", <<>>),
                                IncludeTypes(TRUE, TRUE, FALSE)),
                <<Str_test, N_server>>) }

NoLoad == [errors |-> FALSE, loaded |-> FALSE, repeated |-> FALSE, contents |-> <<>>]

NoCall == [hook |-> "none", id |-> <<>>, defined |-> FALSE, value |-> <<>>]

InitViteIdle ==
  /\ exportedFunctions = <<>>
  /\ resolvedIncludeDirs = <<>>
  /\ globbed = <<>>
  /\ hookResult = NoCall

InitExtIdle ==
  /\ fileCache = <<>>
  /\ envVars = <<>>
  /\ pluginRegistered = FALSE
  /\ declarationContent = <<>>
  /\ loadResult = NoLoad
  /\ warned = {}
  /\ reads = {}

\* no scan pass is in progress
NoScan == [queue |-> <<>>, listed |-> FALSE, ls |-> <<>>]

\* an updateExportedFunctions call: where it is, the files scanDirectory
\* returned, and what the reads produced
NoPass == [phase |-> "idle", files |-> <<>>, result |-> <<>>]

\* a handleHotUpdate call: where it is, its file, and the items parsed from it
NoHot == [phase |-> "idle", file |-> <<>>, newFunctions |-> <<>>]

\* extractExportedItems has not been called
NoExtraction == [done |-> FALSE, items |-> <<>>]

InitAsyncIdle ==
  /\ scan = NoScan
  /\ passes = [caller \in {"configResolved", "load"} |-> NoPass]
  /\ hot = NoHot

InitExtractIdle ==
  /\ fileText = <<>>
  /\ extracted = NoExtraction

\* string | null
NullContent == [isNull |-> TRUE, text |-> <<>>]
Content(text) == [isNull |-> FALSE, text |-> text]

\* no onLoad of the esbuild plugin has run
NoEsbuildLoad ==
  [phase |-> "idle", returned |-> FALSE, contents |-> <<>>, scanned |-> FALSE,
   fallback |-> FALSE]

InitEsbuildIdle ==
  /\ cachedModuleContent = NullContent
  /\ esbuildLoad = NoEsbuildLoad
  /\ succeeded = NullContent

\* no onLoad of the module store has run
NoStoreLoad ==
  [phase |-> "idle", currentTime |-> 0, returned |-> FALSE, contents |-> NullContent,
   scanned |-> FALSE]

InitStoreIdle ==
  /\ virtualModuleStore = [timestamp |-> 0, modules |-> NullContent]
  /\ now = 1000
  /\ storeLoad = NoStoreLoad
  /\ lastAttempt = [time |-> 0, failed |-> FALSE]

InitTasksIdle ==
  /\ InitAsyncIdle
  /\ InitExtractIdle
  /\ InitEsbuildIdle
  /\ InitStoreIdle

InitExt ==
  /\ InitDisk
  /\ options \in ExtConfigs
  /\ InitExtIdle
  /\ InitViteIdle
  /\ InitTasksIdle

\* a scan that starts from the cache and env-var set of the previous pass
ScanPass_keepsCache(ls, d, opts) ==
  ScanIncludeDirs(opts.includeDirs, ls, d,
                  [cache |-> fileCache, env |-> envVars, reads |-> {}, warned |-> {}],
                  opts)

\* the scan of onBuildStart, started from an empty cache and env-var set
ScanPass(ls, d, opts) ==
  ScanIncludeDirs(opts.includeDirs, ls, d,
                  [cache |-> <<>>, env |-> <<>>, reads |-> {}, warned |-> {}], opts)

\* onBuildStart: clear the cache and the env-var set, scan every include
\* directory, and when a file with exports was found register the plugin
\* and write the declaration file
onBuildStart ==
  \E ls \in Listings(disk) :
    \E st \in {ScanPass(ls, disk, options)} :
      /\ fileCache' = st.cache
      /\ envVars' = st.env
      /\ warned' = st.warned
      /\ reads' = st.reads
      /\ pluginRegistered' = (pluginRegistered \/ Len(st.cache) # 0)
      /\ declarationContent' =
           IF Len(st.cache) = 0 THEN declarationContent
           ELSE generateFunctionTypeDeclarations(st.cache)
      /\ loadResult' = NoLoad
      /\ scannedDisk' = TRUE
      /\ prevPassText' = passText
      /\ passText' = [valid |-> TRUE,
                      text |-> generateVirtualModuleContent(st.cache, st.env, options)]
      /\ UNCHANGED <<diskVars, versions, options, viteVars, taskVars>>

\* onLoad whose synthesis empties the env-var set it has emitted
onLoad_drainsEnv ==
  /\ pluginRegistered
  /\ loadResult' =
       IF Len(fileCache) = 0
       THEN [errors |-> TRUE, loaded |-> TRUE, repeated |-> loadResult.loaded,
             contents |-> <<>>]
       ELSE [errors |-> FALSE, loaded |-> TRUE, repeated |-> loadResult.loaded,
             contents |-> generateVirtualModuleContent(fileCache, envVars, options)]
  /\ envVars' = <<>>
  /\ UNCHANGED <<diskVars, ghostVars, options, fileCache, pluginRegistered,
                 declarationContent, warned, reads, viteVars, taskVars>>

\* build.onLoad in the triggerkit namespace
onLoad ==
  /\ pluginRegistered
  /\ loadResult' =
       IF Len(fileCache) = 0
       THEN [errors |-> TRUE, loaded |-> TRUE, repeated |-> loadResult.loaded,
             contents |-> <<>>]
       ELSE [errors |-> FALSE, loaded |-> TRUE, repeated |-> loadResult.loaded,
             contents |-> generateVirtualModuleContent(fileCache, envVars, options)]
  /\ UNCHANGED <<diskVars, ghostVars, options, fileCache, envVars, pluginRegistered,
                 declarationContent, warned, reads, viteVars, taskVars>>

\* what a file is saved with between builds: one plain function, an env import
\* with typed async functions, or nothing that is exported
ExtTextIds == {1, 4, 6}

EditExt ==
  /\ \/ \E f \in SourceFiles, t \in ExtTextIds : WriteFile(f, t)
     \/ WriteFile(F_t, 1)
     \/ \E f \in Files : RemoveFile(f)
  /\ UNCHANGED <<versions, options, extVars, viteVars, taskVars>>

NextExt == onBuildStart \/ onLoad \/ EditExt

SpecExt == InitExt /\ [][NextExt]_vars

(***************************************************************************)
(* Build extension: one scan pass, await by await.  onBuildStart awaits    *)
(* scanFolderForEnvVars and scanFolderForExports for every include         *)
(* directory; the project can be edited while the pass waits.              *)
(***************************************************************************)
ScanState == [cache |-> fileCache, env |-> envVars, reads |-> reads, warned |-> warned]

\* the end of onBuildStart, reached when no include directory is left:
\* register the plugin and write the declarations unless the cache is empty
FinishPass(queue, cache) ==
  /\ pluginRegistered' = (pluginRegistered \/ (queue = <<>> /\ Len(cache) # 0))
  /\ declarationContent' =
       IF queue = <<>> /\ Len(cache) # 0
       THEN generateFunctionTypeDeclarations(cache)
       ELSE declarationContent

\* onBuildStart up to its loop: the cache and the env-var set are cleared
beginScan ==
  /\ scan.queue = <<>>
  /\ fileCache' = <<>>
  /\ envVars' = <<>>
  /\ warned' = {}
  /\ reads' = {}
  /\ loadResult' = NoLoad
  /\ scan' = [queue |-> options.includeDirs, listed |-> FALSE, ls |-> <<>>]
  /\ UNCHANGED <<diskVars, ghostVars, options, pluginRegistered, declarationContent,
                 viteVars, asyncVars, restVars>>

\* the next include directory: skipped with a warning when it is missing,
\* else scanned for env vars, after which scanFolderForExports lists it
listDir ==
  /\ scan.queue # <<>>
  /\ ~scan.listed
  /\ LET dirPath == Head(scan.queue)
     IN IF ~existsSync(dirPath)
        THEN /\ warned' = warned \cup {dirPath}
             /\ scan' = [scan EXCEPT !.queue = Tail(@)]
             /\ FinishPass(Tail(scan.queue), fileCache)
             /\ UNCHANGED <<envVars, reads>>
        ELSE \E ls \in Listings(disk) :
               \E st \in {scanFolderForEnvVars(dirPath, ls, disk, ScanState, options)} :
                 /\ envVars' = st.env
                 /\ warned' = st.warned
                 /\ reads' = st.reads
                 /\ scan' = [scan EXCEPT !.listed = TRUE, !.ls = ls]
                 /\ UNCHANGED <<pluginRegistered, declarationContent>>
  /\ UNCHANGED <<diskVars, ghostVars, options, fileCache, loadResult, viteVars,
                 asyncVars, restVars>>

\* scanFolderForExports works through what it listed, on the disk as it is now
scanDir ==
  /\ scan.queue # <<>>
  /\ scan.listed
  /\ \E st \in {scanFolderForExports(Head(scan.queue), scan.ls, disk, ScanState,
                                     options)} :
       /\ fileCache' = st.cache
       /\ warned' = st.warned
       /\ reads' = st.reads
       /\ scan' = [queue |-> Tail(scan.queue), listed |-> FALSE, ls |-> <<>>]
       /\ FinishPass(Tail(scan.queue), st.cache)
  /\ UNCHANGED <<diskVars, ghostVars, options, envVars, loadResult, viteVars,
                 asyncVars, restVars>>

\* a file is saved, replaced by one the process may not read, or deleted
EditScan ==
  /\ \/ \E f \in SourceFiles, t \in TextIds \cup {Unreadable} : WriteFile(f, t)
     \/ \E f \in Files : RemoveFile(f)
  /\ UNCHANGED <<versions, options, extVars, viteVars, taskVars>>

NextScan == beginScan \/ listDir \/ scanDir \/ EditScan

SpecScan == InitExt /\ [][NextScan]_vars

(***************************************************************************)
(* Build extension: properties                                             *)
(***************************************************************************)
\* the names of the lines of kind k in text, in order
NamesOfKind(text, kinds) ==
  Flat([i \in DOMAIN text |-> IF text[i].k \in kinds THEN text[i].names ELSE <<>>])

\* the cached files whose exported items include name
Exporters(cache, name, includeTypes) ==
  {cache[i].path : i \in {j \in DOMAIN cache :
     name \in Range(ItemNames(extractExportedItems(cache[j].content, includeTypes)))}}

\* the exporter of name that comes first in path order
FirstExporter(cache, name, includeTypes) ==
  CHOOSE p \in Exporters(cache, name, includeTypes) :
    \A q \in Exporters(cache, name, includeTypes) : p = q \/ PathLess(p, q)

\* C1: in individual mode the module text binds each exported name at most
\* once and exports it once, and the import that binds it names the file
\* that comes first in path order among the files exporting it.
C1_IndividualBindsEachNameOnce ==
  (options.exportStrategy.mode = "individual" /\ loadResult.loaded /\ ~loadResult.errors) =>
    LET text == loadResult.contents
        bound == NamesOfKind(text, {"import", "envconst"})
        exported == NamesOfKind(text, {"export"})
    IN \A name \in Range(exported) :
         /\ Count(bound, name) <= 1
         /\ Count(exported, name) = 1
         /\ \A i \in DOMAIN text :
              (text[i].k = "import" /\ name \in Range(text[i].names)) =>
                text[i].path =
                  ImportPath(FirstExporter(fileCache, name, options.includeTypes))

\* C3: a scan pass that runs when no file has changed since the previous
\* pass reads the content of no file the previous pass cached.
C3_RescanReadsNoCachedFile ==
  [][(onBuildStart /\ scannedDisk) =>
       reads' \cap Range(CachePaths(fileCache)) = {}]_vars

C5_TextIndependentOfListingOrder ==
  /\ (passText.valid /\ prevPassText.valid) => passText.text = prevPassText.text
  /\ scannedDisk =>
       \A i, j \in DOMAIN fileCache :
         i < j => PathLess(fileCache[i].path, fileCache[j].path)

NameRec(id) == [id |-> id, group |-> <<>>]
GroupRec(chars) == [id |-> "", group |-> chars]

\* the names the module text exports
ExportedNames(text) ==
  UNION {CASE text[i].k \in {"export", "envconst"} ->
                {NameRec(n) : n \in Range(text[i].names)}
           [] text[i].k = "functions" -> {NameRec("functions")}
           [] text[i].k = "group" -> {GroupRec(text[i].path[1])}
           [] OTHER -> {} : i \in DOMAIN text}

\* the names the declaration file declares
DeclaredNames(text) ==
  UNION {CASE text[i].k \in {"declfunction", "declconst", "declenv"} ->
                {NameRec(n) : n \in Range(text[i].names)}
           [] text[i].k = "declfunctions" -> {NameRec("functions")}
           [] OTHER -> {} : i \in DOMAIN text}

\* C9: after a scan pass that found exports, the names the declaration file
\* declares are exactly the names the module text exports.
C9_DeclarationsMatchExports ==
  (passText.valid /\ fileCache # <<>>) =>
    DeclaredNames(declarationContent) = ExportedNames(passText.text)

\* import ... from '$env/static/private' or '$env/static/public'
IsEnvImport(st) == st.kind = "import" /\ st.from \in {ENV_PUBLIC, ENV_PRIVATE}

\* C10: the transformed text the scan caches for a file holds no import from
\* the env modules; each such import of the file is replaced, in place, by a
\* destructuring read of process.env with the same names in the same order.
C10_NoEnvImportRemains ==
  scannedDisk =>
    \A i \in DOMAIN fileCache :
      LET source == TextOf(disk[fileCache[i].path].text)
          content == fileCache[i].content
      IN /\ Len(content) = Len(source)
         /\ \A k \in DOMAIN source :
              /\ ~IsEnvImport(content[k])
              /\ IsEnvImport(source[k]) =>
                   (content[k].kind = "envread" /\ content[k].names = source[k].names)

\* options with another export mode
WithMode(opts, mode) == [opts EXCEPT !.exportStrategy.mode = mode]

\* the names a text exports flat or inside a group object
NamesFlatOrGrouped(text) ==
  ExportedNames(text)
    \cup {NameRec(n) : n \in Range(NamesOfKind(text, {"group"}))}

\* C12: every name the individual-mode module exports is exported, flat or
\* inside a group, by the mixed-mode module built from the same cache and
\* env-var set.
C12_MixedCoversIndividual ==
  fileCache # <<>> =>
    ExportedNames(generateVirtualModuleContent(fileCache, envVars,
                                               WithMode(options, "individual")))
      \subseteq
    NamesFlatOrGrouped(generateVirtualModuleContent(fileCache, envVars,
                                                    WithMode(options, "mixed")))

\* a mixed-mode build holds files with exports and env variables
C12_Witness ==
  /\ options.exportStrategy.mode = "mixed"
  /\ fileCache # <<>>
  /\ envVars # <<>>
  /\ loadResult.loaded /\ ~loadResult.errors

\* C13: a load of the virtual module never answers with an error result,
\* also when the last scan pass found no file with exports: it answers with
\* module text.
C13_LoadNeverReturnsErrors ==
  loadResult.loaded => ~loadResult.errors

\* the first function statement of content called name
FirstFunction(content, name) ==
  LET found == SelectSeq(content, LAMBDA st : st.kind = "function" /\ st.name = name)
  IN found[1]

\* the result type wrapped in Promise exactly once when the function is
\* async, the declared return type (any when there is none) otherwise
ExpectedReturnType(st) ==
  LET returnType == IF st.returnType # <<>> THEN st.returnType ELSE T_any
  IN IF st.isAsync /\ Head(returnType) # "Promise"
     THEN PromiseOf(returnType)
     ELSE returnType

\* C14: every function signature of the declaration file returns the
\* function's result type wrapped in Promise exactly once when the function
\* is async, and its declared return type when it is not.
C14_PromiseWrappedOnce ==
  (passText.valid /\ fileCache # <<>>) =>
    \A i \in DOMAIN fileCache :
      LET lines == DeclarationsOfFile(fileCache[i])
      IN \A j \in DOMAIN lines :
           lines[j].k \in {"declfunction", "declconst"} =>
             /\ lines[j] \in Range(declarationContent)
             /\ lines[j].returnType =
                  ExpectedReturnType(FirstFunction(fileCache[i].content,
                                                   lines[j].names[1]))

\* C15: the module text a load serves binds every discovered environment
\* variable exactly once, before every import and export of discovered
\* items, and reads process.env only when a variable was discovered.
C15_EnvVarsFirstAndOnce ==
  (loadResult.loaded /\ ~loadResult.errors) =>
    LET text == loadResult.contents
        bound == NamesOfKind(text, {"envconst"})
    IN /\ Range(bound) = Range(envVars)
       /\ \A name \in Range(bound) : Count(bound, name) = 1
       /\ \A i, j \in DOMAIN text :
            (text[i].k \in {"envhdr", "envconst"}
               /\ text[j].k \in {"import", "export", "group", "functions"}) => i < j
       /\ envVars = <<>> =>
            \A i \in DOMAIN text : text[i].k \notin {"envhdr", "envconst"}

\* a load served a module built from two files that import the same variable
C15_Witness ==
  /\ loadResult.loaded /\ ~loadResult.errors
  /\ scannedDisk
  /\ {F_b, F_c} \subseteq Range(CachePaths(fileCache))
  /\ disk[F_b].text = 2 /\ disk[F_c].text = 3
  /\ Range(envVars) = {"API_KEY", "DB_URL"}

\* p lies below an existing include directory, no name on the way down from
\* that directory matches an exclude pattern, and its name has a file pattern
IsCandidate(p, opts) ==
  \E i \in DOMAIN opts.includeDirs :
    LET dir == opts.includeDirs[i]
    IN /\ existsSync(dir)
       /\ IsUnder(p, dir)
       /\ \A n \in (Len(dir) + 1)..Len(p) : ~IsExcludedName(p[n], opts.exclude)
       /\ hasMatchingExtension(basename(p), opts.filePatterns)

\* C16: after a completed scan pass every cached path is a file that exists,
\* matches the include/exclude filters and has the modification time the pass
\* saw; a file that no longer exists has no cache entry and no import line in
\* the module text generated from the pass.
C16_CacheHoldsOnlyFoundFiles ==
  scannedDisk =>
    /\ \A i \in DOMAIN fileCache :
         /\ fileCache[i].path \in Files
         /\ disk[fileCache[i].path].exists
         /\ IsCandidate(fileCache[i].path, options)
         /\ fileCache[i].lastModified = disk[fileCache[i].path].mtime
    /\ \A f \in Files :
         ~disk[f].exists =>
           /\ ~MapHas(fileCache, f)
           /\ \A j \in DOMAIN passText.text :
                ~(passText.text[j].k = "import"
                    /\ passText.text[j].path = ImportPath(f))

\* a pass has completed after a candidate file that has exports was removed,
\* and other files are still cached
C16_Witness ==
  /\ scannedDisk
  /\ ~disk[F_b].exists
  /\ IsCandidate(F_b, options)
  /\ warned = {}
  /\ MapHas(fileCache, F_a)
  /\ passText.valid

\* the readdir of scanFolderForExports returned file p
Listed(p) ==
  /\ scan.listed
  /\ \E i \in DOMAIN scan.ls[dirname(p)] : scan.ls[dirname(p)][i] = basename(p)

\* scanDir reaches file p: it was listed below the directory being scanned,
\* it passes the filters, and no listed file makes fs.statSync throw
Visits(p) ==
  /\ Listed(p)
  /\ IsUnder(p, Head(scan.queue))
  /\ \A n \in (Len(Head(scan.queue)) + 1)..Len(p) :
       ~IsExcludedName(p[n], options.exclude)
  /\ hasMatchingExtension(basename(p), options.filePatterns)
  /\ \A g \in Files : Listed(g) => disk[g].exists

\* C17: when the scan visits a file whose modification time differs from the
\* one in its cache entry, the entry afterwards carries the new modification
\* time and the content derived from the new text; when the file cannot be
\* read the old entry is not kept.
C17_StaleEntryIsReplaced ==
  [][scanDir =>
       \A p \in Files :
         (/\ Visits(p)
          /\ MapHas(fileCache, p)
          /\ MapGet(fileCache, p).lastModified # disk[p].mtime)
         => IF disk[p].text = Unreadable
            THEN ~MapHas(fileCache', p) \/ MapGet(fileCache', p) # MapGet(fileCache, p)
            ELSE /\ MapHas(fileCache', p)
                 /\ MapGet(fileCache', p) =
                      CachedFile(p, disk[p].mtime,
                                 transformSvelteKitEnvImports(TextOf(disk[p].text)))]_vars

\* scanDir is to visit file p: it was listed below the directory being
\* scanned and it passes the filters
Candidate(p) ==
  /\ Listed(p)
  /\ IsUnder(p, Head(scan.queue))
  /\ \A n \in (Len(Head(scan.queue)) + 1)..Len(p) :
       ~IsExcludedName(p[n], options.exclude)
  /\ hasMatchingExtension(basename(p), options.filePatterns)

\* the file is gone when its modification time is read, or its read fails
Fails(p) == ReadThrows(disk, p)

\* the exported items the scan finds in the present text of p
ItemsOnDisk(p) ==
  extractExportedItems(transformSvelteKitEnvImports(TextOf(disk[p].text)),
                       options.includeTypes)

\* C18: when one candidate file fails during the scan of a directory, the
\* failure is logged, the file gets no cache entry, and every other candidate
\* file that has exports is cached with its present modification time.
C18_FailureSkipsOnlyThatFile ==
  [][scanDir =>
       \A f \in Files :
         (/\ Candidate(f) /\ Fails(f)
          /\ \A g \in Files \ {f} : Candidate(g) => ~Fails(g))
         => /\ warned' \cap {f, dirname(f)} # {}
            /\ ~MapHas(fileCache, f) => ~MapHas(fileCache', f)
            /\ \A g \in Files \ {f} :
                 (Candidate(g) /\ ItemsOnDisk(g) # <<>>)
                 => /\ MapHas(fileCache', g)
                    /\ MapGet(fileCache', g).lastModified = disk[g].mtime]_vars

(***************************************************************************)
(* Vite plugin (synchronous): parser, glob, module text                    *)
(***************************************************************************)
ExportedFunction(name, path, isAsync) ==
  [name |-> name, path |-> path, exportName |-> name, isAsync |-> isAsync]

\* typescript-estree parse() throws on text that is not valid TypeScript
ParseThrows(content) == \E i \in DOMAIN content : content[i].kind = "error"

\* parseFile: one item per `export function` declaration, in text order
parseFile(content, filePath) ==
  LET decls == StmtsOf(content, "function", "decl")
  IN [i \in DOMAIN decls |-> ExportedFunction(decls[i].name, filePath, decls[i].isAsync)]

\* '**/*<str>' (anyName), '**/<str>' (name), '**/<str>/**' (segment)
Glob(kind, str) == [kind |-> kind, str |-> str]

Str_dot_ts == <<".", "t", "s">>
Str_dot_js == <<".", "j", "s">>
Str_plus_server == <<"+", "s", "e", "r", "v", "e", "r", ".", "t", "s">>
Str_node_modules == <<"n", "o", "d", "e", "_", "m", "o", "d", "u", "l", "e", "s">>
Str_dot_test_ts == <<".", "t", "e", "s", "t", ".", "t", "s">>
Str_dot_spec_ts == <<".", "s", "p", "e", "c", ".", "t", "s">>

\* does the path rel (relative to the glob's cwd) match the pattern
GlobMatch(pattern, rel) ==
  CASE pattern.kind = "anyName" ->
         /\ endsWith(basename(rel), pattern.str)
         /\ \A i \in DOMAIN rel : Head(rel[i]) # "."
    [] pattern.kind = "name" ->
         /\ basename(rel) = pattern.str
         /\ \A i \in DOMAIN rel : Head(rel[i]) # "."
    [] pattern.kind = "segment" ->
         \E i \in 1..(Len(rel) - 1) : rel[i] = pattern.str
    [] OTHER -> FALSE

\* path.relative(dir, file) for a file under dir
relative(dir, file) == SubSeq(file, Len(dir) + 1, Len(file))

\* the files globSync(include, {cwd: dirPath, ignore: exclude}) finds
GlobSet(d, dirPath, include, exclude) ==
  {f \in Files :
     /\ d[f].exists
     /\ IsUnder(f, dirPath)
     /\ \E i \in DOMAIN include : GlobMatch(include[i], relative(dirPath, f))
     /\ ~\E i \in DOMAIN exclude : GlobMatch(exclude[i], relative(dirPath, f))}

RECURSIVE GlobRuns(_, _, _)
\* one globSync result per include directory, each in an order glob chooses;
\* no call is made for a directory that does not exist
GlobRuns(d, dirs, opts) ==
  IF dirs = <<>> THEN {<<>>}
  ELSE {<<files>> \o rest :
          files \in (IF existsSync(Head(dirs))
                     THEN Perms(GlobSet(d, Head(dirs), opts.include, opts.exclude))
                     ELSE {<<>>}),
          rest \in GlobRuns(d, Tail(dirs), opts)}

\* files.flatMap(file => { try { read; parse } catch { return [] } })
ParseAll(files, d) ==
  Flat([i \in DOMAIN files |->
          IF ReadThrows(d, files[i]) \/ ParseThrows(TextOf(d[files[i]].text)) THEN <<>>
          ELSE parseFile(TextOf(d[files[i]].text), files[i])])

updateExportedFunctions_abort(dirs, globs, d) ==
  IF \E i \in DOMAIN dirs : ~existsSync(dirs[i]) THEN <<>>
  ELSE Flat([i \in DOMAIN dirs |-> ParseAll(globs[i], d)])

\* resolvedIncludeDirs.flatMap(dirPath => ...): a missing directory gives []
updateExportedFunctions(dirs, globs, d) ==
  Flat([i \in DOMAIN dirs |->
          IF ~existsSync(dirs[i]) THEN <<>> ELSE ParseAll(globs[i], d)])

\* the directories updateExportedFunctions warns about
MissingDirs(dirs) == {dirs[i] : i \in {j \in DOMAIN dirs : ~existsSync(dirs[j])}}

\* Object keys of functionMap: acc[func.name] = ..., first assignment places
\* the key
generateFunctionsModule(functions) ==
  [i \in DOMAIN functions |->
     Line("import", <<functions[i].exportName>>, functions[i].path)]
    \o [i \in DOMAIN functions |-> Line("exportconst", <<functions[i].name>>, <<>>)]
    \o <<Line("functions", Dedup(ItemNames(functions)), <<>>),
         Line("getFunction", <<>>, <<>>)>>

V_default == <<"virtual:sveltekit-functions">>
V_custom == <<"virtual:custom">>
NUL == <<"\\0">>

ViteOptions(includeDirs, virtualModuleId) ==
  [includeDirs |-> includeDirs,
   include |-> <<Glob("anyName", Str_dot_ts), Glob("anyName", Str_dot_js),
                 Glob("name", Str_plus_server)>>,
   exclude |-> <<Glob("segment", Str_node_modules), Glob("anyName", Str_dot_test_ts),
                 Glob("anyName", Str_dot_spec_ts)>>,
   virtualModuleId |-> virtualModuleId]

\* the configurations explored: the default, nested include directories with
\* a custom module id, and a single sub-directory
ViteConfigs ==
  { ViteOptions(<<D_lib, D_api>>, V_default),
    ViteOptions(<<D_lib, D_server>>, V_custom),
    ViteOptions(<<D_api, D_server>>, V_default) }

\* the ids the host may ask about
RequestIds ==
  {V_default, V_custom, NUL \o V_default, NUL \o V_custom, <<"other-module">>}

resolvedVirtualModuleId(opts) == NUL \o opts.virtualModuleId

Returned(hook, id, value) == [hook |-> hook, id |-> id, defined |-> TRUE, value |-> value]
ReturnedUndefined(hook, id) == [hook |-> hook, id |-> id, defined |-> FALSE, value |-> <<>>]

resolveId_default(id, opts) ==
  IF id = V_default THEN Returned("resolveId", id, resolvedVirtualModuleId(opts))
  ELSE ReturnedUndefined("resolveId", id)

resolveId(id, opts) ==
  IF id = opts.virtualModuleId THEN Returned("resolveId", id, resolvedVirtualModuleId(opts))
  ELSE ReturnedUndefined("resolveId", id)

load(id, opts, functions) ==
  IF id = resolvedVirtualModuleId(opts)
  THEN Returned("load", id, generateFunctionsModule(functions))
  ELSE ReturnedUndefined("load", id)

\* relativePath && !relativePath.startsWith('..') && !relativePath.startsWith(sep)
IsWatchedFile(file, dirs) == \E i \in DOMAIN dirs : IsUnder(file, dirs[i])

(***************************************************************************)
(* Vite plugin: hooks                                                      *)
(***************************************************************************)
InitVite ==
  /\ InitDisk
  /\ options \in ViteConfigs
  /\ InitExtIdle
  /\ InitViteIdle
  /\ InitTasksIdle

\* configResolved runs once, when the dev server or build starts
configResolved ==
  /\ resolvedIncludeDirs = <<>>
  /\ resolvedIncludeDirs' = options.includeDirs
  /\ \E globs \in GlobRuns(disk, options.includeDirs, options) :
       /\ globbed' = globs
       /\ exportedFunctions' = updateExportedFunctions(options.includeDirs, globs, disk)
  /\ warned' = MissingDirs(options.includeDirs)
  /\ UNCHANGED <<diskVars, ghostVars, options, fileCache, envVars, pluginRegistered,
                 declarationContent, loadResult, reads, hookResult, taskVars>>

CallResolveId ==
  /\ \E id \in RequestIds : hookResult' = resolveId(id, options)
  /\ UNCHANGED <<diskVars, ghostVars, options, extVars, exportedFunctions,
                 resolvedIncludeDirs, globbed, taskVars>>

CallLoad ==
  /\ \E id \in RequestIds : hookResult' = load(id, options, exportedFunctions)
  /\ UNCHANGED <<diskVars, ghostVars, options, extVars, exportedFunctions,
                 resolvedIncludeDirs, globbed, taskVars>>

\* handleHotUpdate for a file the watcher reports as changed.  Reading a
\* missing file and parsing invalid text throw inside the try block, before
\* exportedFunctions is assigned; the catch block only warns.
handleHotUpdate(file) ==
  /\ file \in pending
  /\ pending' = pending \ {file}
  /\ exportedFunctions' =
       IF /\ IsWatchedFile(file, resolvedIncludeDirs)
          /\ ~ReadThrows(disk, file)
          /\ ~ParseThrows(TextOf(disk[file].text))
       THEN SelectSeq(exportedFunctions, LAMBDA fn : fn.path # file)
              \o parseFile(TextOf(disk[file].text), file)
       ELSE exportedFunctions
  /\ UNCHANGED <<disk, edits, ghostVars, options, extVars, resolvedIncludeDirs,
                 globbed, hookResult, taskVars>>

EditVite ==
  /\ \/ \E f \in SourceFiles, t \in TextIds \cup {Unreadable} : WriteFile(f, t)
     \/ WriteFile(F_t, 1)
     \/ \E f \in Files : RemoveFile(f)
  /\ UNCHANGED <<versions, options, extVars, viteVars, taskVars>>

NextVite ==
  \/ configResolved
  \/ CallResolveId
  \/ CallLoad
  \/ \E f \in Files : handleHotUpdate(f)
  \/ EditVite

SpecVite == InitVite /\ [][NextVite]_vars

(***************************************************************************)
(* Vite plugin: properties                                                 *)
(***************************************************************************)
\* the items a file yields when it is read and parsed now: none when the
\* file is missing or its text is not valid
ItemsOfFile(file, d) ==
  IF ~ReadThrows(d, file) /\ ~ParseThrows(TextOf(d[file].text))
  THEN parseFile(TextOf(d[file].text), file)
  ELSE <<>>

\* C2: after handleHotUpdate processed a changed file inside an include
\* directory, the text the next load serves is the module of the previous
\* aggregate without the items of that file, followed by the items newly
\* parsed from it.
C2_HotUpdateReplacesFileItems ==
  [][\A f \in Files :
       (handleHotUpdate(f) /\ IsWatchedFile(f, resolvedIncludeDirs)) =>
         load(resolvedVirtualModuleId(options), options, exportedFunctions').value
           = generateFunctionsModule(
               SelectSeq(exportedFunctions, LAMBDA fn : fn.path # f)
                 \o ItemsOfFile(f, disk))]_vars

\* the files that match the patterns under some include directory
MatchingFiles(d, dirs, opts) ==
  UNION {GlobSet(d, dirs[i], opts.include, opts.exclude) :
           i \in {j \in DOMAIN dirs : existsSync(dirs[j])}}

\* C6: the scan of configResolved takes each matching file as a candidate
\* exactly once, and the aggregate holds one copy of each file's items.
C6_EachFileScannedOnce ==
  [][configResolved =>
       LET candidates == Flat(globbed')
       IN /\ Range(candidates) = MatchingFiles(disk, options.includeDirs, options)
          /\ Len(candidates) = Cardinality(Range(candidates))
          /\ \A f \in Files :
               SelectSeq(exportedFunctions', LAMBDA fn : fn.path = f)
                 = IF f \in Range(candidates) THEN ItemsOfFile(f, disk) ELSE <<>>]_vars

\* the indices of the include directories that exist
ExistingIndices(dirs) == {i \in DOMAIN dirs : existsSync(dirs[i])}

RECURSIVE AggregateOf(_, _, _, _)
\* the aggregate of the include directories that exist, taken alone
AggregateOf(dirs, globs, d, i) ==
  IF i > Len(dirs) THEN <<>>
  ELSE (IF i \in ExistingIndices(dirs) THEN ParseAll(globs[i], d) ELSE <<>>)
         \o AggregateOf(dirs, globs, d, i + 1)

C8_ResolveAndLoadOwnOnlyTheModule ==
  /\ hookResult.hook = "resolveId" =>
       /\ hookResult.defined <=> hookResult.id = options.virtualModuleId
       /\ hookResult.defined => hookResult.value = NUL \o options.virtualModuleId
  /\ hookResult.hook = "load" =>
       /\ hookResult.defined <=> hookResult.id = NUL \o options.virtualModuleId
       /\ hookResult.defined =>
            /\ hookResult.value # <<>>
            /\ hookResult.value[Len(hookResult.value)].k = "getFunction"

\* resolveId was asked for a custom module id and owned it
C8_Witness ==
  /\ hookResult.hook = "resolveId"
  /\ hookResult.defined
  /\ options.virtualModuleId = V_custom

\* C20: after handleHotUpdate for a watched file that cannot be read, the
\* aggregate holds no item of that file, and the items of the other files are
\* the ones it held before, in the same order.
C20_UnreadableFileIsDropped ==
  [][\A f \in Files :
       (handleHotUpdate(f) /\ IsWatchedFile(f, resolvedIncludeDirs)
          /\ ReadThrows(disk, f)) =>
         /\ \A i \in DOMAIN exportedFunctions' : exportedFunctions'[i].path # f
         /\ SelectSeq(exportedFunctions', LAMBDA fn : fn.path # f)
              = SelectSeq(exportedFunctions, LAMBDA fn : fn.path # f)]_vars

(***************************************************************************)
(* Vite plugin (asynchronous): scanDirectory, module text                  *)
(***************************************************************************)
RECURSIVE RemoveFirstStar(_)
\* pattern.replace('*', ''): the first asterisk is removed
RemoveFirstStar(pattern) ==
  IF pattern = <<>> THEN <<>>
  ELSE IF Head(pattern) = "*" THEN Tail(pattern)
  ELSE <<Head(pattern)>> \o RemoveFirstStar(Tail(pattern))

\* include.some(pattern => fullPath.endsWith(pattern.replace('*', '')))
IncludeMatch(fullPath, include) ==
  \E i \in DOMAIN include :
    endsWith(<<"/">> \o PathString(fullPath), RemoveFirstStar(include[i]))

RECURSIVE scanDirectory_scan(_, _, _, _)
RECURSIVE ScanDirectoryEntries(_, _, _, _, _)
\* the loop of scan(currentDir): a directory is entered unless its name is an
\* element of exclude, a file is pushed when an include pattern matches
ScanDirectoryEntries(currentDir, entries, ls, files, opts) ==
  IF entries = <<>> THEN files
  ELSE LET fullPath == join(currentDir, Head(entries))
           files1 == IF fullPath \in Dirs
                     THEN IF \E i \in DOMAIN opts.exclude : opts.exclude[i] = Head(entries)
                          THEN files
                          ELSE scanDirectory_scan(fullPath, ls, files, opts)
                     ELSE IF IncludeMatch(fullPath, opts.include)
                          THEN Append(files, fullPath)
                          ELSE files
       IN ScanDirectoryEntries(currentDir, Tail(entries), ls, files1, opts)

scanDirectory_scan(currentDir, ls, files, opts) ==
  ScanDirectoryEntries(currentDir, ls[currentDir], ls, files, opts)

\* scanDirectory: [] with a warning when fs.access fails
scanDirectory(dir, ls, opts) ==
  IF ~existsSync(dir) THEN <<>> ELSE scanDirectory_scan(dir, ls, <<>>, opts)

\* [...new Set(variables)].filter(Boolean), then one destructuring line or ''
generateEnvImports(variables) ==
  LET uniqueVars == SelectSeq(Dedup(variables), LAMBDA v : v # "")
  IN IF uniqueVars = <<>> THEN <<>>
     ELSE <<Line("envdestructure", uniqueVars, <<>>)>>

\* the module text of the asynchronous plugin: imports, exports, and the
\* functions object, whose keys are the export names in first-assignment order
generateAsyncFunctionsModule(functions) ==
  generateFunctionsModule(functions)
    \o <<Line("functions",
              Dedup([i \in DOMAIN functions |-> functions[i].exportName]), <<>>)>>

Pat_any_ts == <<"*", "*", "/", "*", ".", "t", "s">>
Pat_any_js == <<"*", "*", "/", "*", ".", "j", "s">>
Pat_plus_server == <<"*", "*", "/", "+", "s", "e", "r", "v", "e", "r", ".", "t", "s">>
Pat_ts == <<"*", ".", "t", "s">>
Pat_node_modules ==
  <<"*", "*", "/", "n", "o", "d", "e", "_", "m", "o", "d", "u", "l", "e", "s", "/", "*", "*">>

AsyncOptions(includeDirs, include, exclude, variables) ==
  [includeDirs |-> includeDirs,
   include |-> include,
   exclude |-> exclude,
   virtualModuleId |-> V_default,
   env |-> [variables |-> variables]]

\* the configurations explored: the defaults, and a project that lists its
\* files by '*.ts', leaves out the directory named server and names env vars
AsyncConfigs ==
  { AsyncOptions(<<D_lib, D_api>>, <<Pat_any_ts, Pat_any_js, Pat_plus_server>>,
                 <<Pat_node_modules>>, <<>>),
    AsyncOptions(<<D_lib>>, <<Pat_ts>>, <<N_server>>, <<"API_KEY", "", "API_KEY">>) }

\* normalizedFile.startsWith(normalizedDir) for some include directory
IsWatchedFileAsync(file, dirs) ==
  \E i \in DOMAIN dirs : startsWith(PathString(file), PathString(dirs[i]))

(***************************************************************************)
(* Vite plugin (asynchronous): hooks.  An action is the code between two   *)
(* awaits; the host may call a hook while another call is waiting.         *)
(***************************************************************************)
\* the ids load is asked for: the module's resolved id and a foreign one
AsyncRequestIds == {NUL \o V_default, V_default}

InitAsync ==
  /\ InitDisk
  /\ options \in AsyncConfigs
  /\ InitExtIdle
  /\ InitViteIdle
  /\ InitTasksIdle

\* updateExportedFunctions() is called: it runs up to its first await
StartPass(caller) == [passes EXCEPT ![caller] = [NoPass EXCEPT !.phase = "listing"]]

\* configResolved starts a pass and returns without waiting for it
configResolvedAsync ==
  /\ resolvedIncludeDirs = <<>>
  /\ resolvedIncludeDirs' = options.includeDirs
  /\ passes' = StartPass("configResolved")
  /\ UNCHANGED <<diskVars, ghostVars, options, extVars, exportedFunctions, globbed,
                 hookResult, scan, hot, restVars>>

\* resolveId compares with the configured id
CallResolveIdAsync ==
  /\ \E id \in AsyncRequestIds : hookResult' = resolveId(id, options)
  /\ UNCHANGED <<diskVars, ghostVars, options, extVars, exportedFunctions,
                 resolvedIncludeDirs, globbed, taskVars>>

\* load for the module's id starts its own pass and waits for it; for any
\* other id it returns undefined
CallLoadAsync ==
  /\ resolvedIncludeDirs # <<>>
  /\ passes["load"].phase = "idle"
  /\ \E id \in AsyncRequestIds :
       IF id = resolvedVirtualModuleId(options)
       THEN /\ passes' = StartPass("load")
            /\ hookResult' = NoCall
       ELSE /\ hookResult' = ReturnedUndefined("load", id)
            /\ UNCHANGED passes
  /\ UNCHANGED <<diskVars, ghostVars, options, extVars, exportedFunctions,
                 resolvedIncludeDirs, globbed, scan, hot, restVars>>

\* await Promise.all(resolvedIncludeDirs.map(scanDirectory)) has its lists
passList(caller) ==
  /\ passes[caller].phase = "listing"
  /\ \E ls \in Listings(disk) :
       passes' = [passes EXCEPT
                    ![caller].phase = "reading",
                    ![caller].files =
                      Flat([i \in DOMAIN resolvedIncludeDirs |->
                              scanDirectory(resolvedIncludeDirs[i], ls, options)])]
  /\ UNCHANGED <<diskVars, ghostVars, options, extVars, viteVars, scan, hot, restVars>>

\* the files are read and parsed; a failing read or parse gives []
passRead(caller) ==
  /\ passes[caller].phase = "reading"
  /\ passes' = [passes EXCEPT
                  ![caller].phase = "assigning",
                  ![caller].files = <<>>,
                  ![caller].result = ParseAll(passes[caller].files, disk)]
  /\ UNCHANGED <<diskVars, ghostVars, options, extVars, viteVars, scan, hot, restVars>>

\* load has been woken by its pass and has not run yet: its continuation is
\* a promise job of the task in which the pass assigned, and runs before the
\* callback of any other read or listing
LoadJobQueued == passes["load"].phase = "resume"

\* a pass whose caller is woken by a later task: other callbacks may run
\* between its assignment and the caller's next statement
passAssign_laterTask(caller) ==
  /\ passes[caller].phase = "assigning"
  /\ exportedFunctions' = passes[caller].result
  /\ passes' = [passes EXCEPT
                  ![caller] = IF caller = "load"
                              THEN [passes[caller] EXCEPT !.phase = "resume"]
                              ELSE NoPass]
  /\ UNCHANGED <<diskVars, ghostVars, options, extVars, resolvedIncludeDirs, globbed,
                 hookResult, scan, hot, restVars>>

\* exportedFunctions = (await Promise.all(...)).flat(): one assignment; the
\* pass of load then lets load continue (the record keeps what the pass
\* computed until load has run)
passAssign(caller) ==
  /\ passes[caller].phase = "assigning"
  /\ ~LoadJobQueued
  /\ exportedFunctions' = passes[caller].result
  /\ passes' = [passes EXCEPT
                  ![caller] = IF caller = "load"
                              THEN [passes[caller] EXCEPT !.phase = "resume"]
                              ELSE NoPass]
  /\ UNCHANGED <<diskVars, ghostVars, options, extVars, resolvedIncludeDirs, globbed,
                 hookResult, scan, hot, restVars>>

\* load after its await: it reads exportedFunctions and returns the text
loadResume ==
  /\ passes["load"].phase = "resume"
  /\ hookResult' = Returned("load", resolvedVirtualModuleId(options),
                            generateEnvImports(options.env.variables)
                              \o generateAsyncFunctionsModule(exportedFunctions))
  /\ passes' = [passes EXCEPT !["load"] = NoPass]
  /\ UNCHANGED <<diskVars, ghostVars, options, extVars, exportedFunctions,
                 resolvedIncludeDirs, globbed, scan, hot, restVars>>

\* handleHotUpdate up to `await fs.readFile`
hotStart(file) ==
  /\ file \in pending
  /\ hot.phase = "idle"
  /\ pending' = pending \ {file}
  /\ hot' = IF IsWatchedFileAsync(file, resolvedIncludeDirs)
            THEN [NoHot EXCEPT !.phase = "reading", !.file = file]
            ELSE hot
  /\ UNCHANGED <<disk, edits, ghostVars, options, extVars, viteVars, scan, passes, restVars>>

\* handleHotUpdate after the await, with filter and push in separate steps
hotApply_awaitsBetween ==
  \/ /\ hot.phase = "reading"
     /\ IF ReadThrows(disk, hot.file) \/ ParseThrows(TextOf(disk[hot.file].text))
        THEN /\ hot' = NoHot
             /\ UNCHANGED exportedFunctions
        ELSE /\ exportedFunctions' =
                  SelectSeq(exportedFunctions, LAMBDA fn : fn.path # hot.file)
             /\ hot' = [hot EXCEPT
                          !.phase = "filtered",
                          !.newFunctions = parseFile(TextOf(disk[hot.file].text), hot.file)]
     /\ UNCHANGED <<diskVars, ghostVars, options, extVars, resolvedIncludeDirs, globbed,
                    hookResult, scan, passes, restVars>>
  \/ /\ hot.phase = "filtered"
     /\ exportedFunctions' = exportedFunctions \o hot.newFunctions
     /\ hot' = NoHot
     /\ UNCHANGED <<diskVars, ghostVars, options, extVars, resolvedIncludeDirs, globbed,
                    hookResult, scan, passes, restVars>>

\* handleHotUpdate after the await: the read and the parse may throw, which
\* the catch logs; otherwise filter and push run without an await between them
hotApply ==
  /\ hot.phase = "reading"
  /\ ~LoadJobQueued
  /\ exportedFunctions' =
       IF ReadThrows(disk, hot.file) \/ ParseThrows(TextOf(disk[hot.file].text))
       THEN exportedFunctions
       ELSE SelectSeq(exportedFunctions, LAMBDA fn : fn.path # hot.file)
              \o parseFile(TextOf(disk[hot.file].text), hot.file)
  /\ hot' = NoHot
  /\ UNCHANGED <<diskVars, ghostVars, options, extVars, resolvedIncludeDirs, globbed,
                 hookResult, scan, passes, restVars>>

\* a file is saved with a function declaration, with text that does not
\* parse, or unreadable; or it is deleted
AsyncTextIds == {2, 5, Unreadable}

EditAsync ==
  /\ \/ \E f \in SourceFiles, t \in AsyncTextIds :
          /\ WriteFile(f, t)
          /\ versions' = [versions EXCEPT ![f] = @ \cup {t}]
     \/ \E f \in Files :
          /\ RemoveFile(f)
          /\ versions' = [versions EXCEPT ![f] = @ \cup {Gone}]
  /\ UNCHANGED <<options, extVars, viteVars, taskVars>>

NextAsync ==
  \/ configResolvedAsync
  \/ CallResolveIdAsync
  \/ CallLoadAsync
  \/ \E caller \in {"configResolved", "load"} : passList(caller)
  \/ \E caller \in {"configResolved", "load"} : passRead(caller)
  \/ \E caller \in {"configResolved", "load"} : passAssign(caller)
  \/ loadResume
  \/ \E f \in Files : hotStart(f)
  \/ hotApply
  \/ EditAsync

SpecAsync == InitAsync /\ [][NextAsync]_vars

(***************************************************************************)
(* Vite plugin (asynchronous): properties                                  *)
(***************************************************************************)
\* the items of file f in an aggregate
ItemsIn(functions, f) ==
  {functions[i] : i \in {j \in DOMAIN functions : functions[j].path = f}}

\* the items a complete read and parse of file f gives when f holds v
ItemsOfVersion(v, f) ==
  IF v \in {Gone, Unreadable} THEN {}
  ELSE IF ParseThrows(TextOf(v)) THEN {}
  ELSE Range(parseFile(TextOf(v), f))

\* a scan pass lists file f whenever f exists
CoveredByPass(f) ==
  \E i \in DOMAIN resolvedIncludeDirs :
    LET dir == resolvedIncludeDirs[i]
    IN /\ existsSync(dir)
       /\ IsUnder(f, dir)
       /\ IncludeMatch(f, options.include)
       /\ \A n \in (Len(dir) + 1)..(Len(f) - 1) :
            \A k \in DOMAIN options.exclude : options.exclude[k] # f[n]

InFlight(caller) == passes[caller].phase \in {"listing", "reading", "assigning"}

\* C19: at most one scan pass is in flight at any time; the pass of load
\* never runs while the pass of configResolved is unfinished.
C19_AtMostOnePassInFlight ==
  Cardinality({caller \in {"configResolved", "load"} : InFlight(caller)}) <= 1


\* does the file match an include pattern and no exclude pattern, relative to
\* an include directory that holds it
MatchesPatterns(f, opts) ==
  \E i \in DOMAIN opts.includeDirs :
    /\ IsUnder(f, opts.includeDirs[i])
    /\ \E j \in DOMAIN opts.include :
         GlobMatch(opts.include[j], relative(opts.includeDirs[i], f))
    /\ ~\E j \in DOMAIN opts.exclude :
          GlobMatch(opts.exclude[j], relative(opts.includeDirs[i], f))

\* C21: every item of the aggregate comes from a file that matches an include
\* pattern and no exclude pattern.
C21_AggregateOnlyFromMatchingFiles ==
  \A i \in DOMAIN exportedFunctions : MatchesPatterns(exportedFunctions[i].path, options)


\* a name holds the pattern as a substring
NameHolds(name, pattern) ==
  \E a \in 0..Len(name) : \E b \in a..Len(name) : SubSeq(name, a + 1, b) = pattern

\* the path p, taken below root, matches an exclude pattern: the file's name
\* or the name of a directory between root and the file holds the pattern
PathExcluded(p, root, excludePatterns) ==
  \E n \in (Len(root) + 1)..Len(p) :
    \E k \in DOMAIN excludePatterns : NameHolds(p[n], excludePatterns[k])

\* the path matches an include pattern: the file's name ends with it
PathIncluded(p, filePatterns) ==
  \E k \in DOMAIN filePatterns :
    /\ Len(p[Len(p)]) >= Len(filePatterns[k])
    /\ SubSeq(p[Len(p)], Len(p[Len(p)]) - Len(filePatterns[k]) + 1, Len(p[Len(p)]))
         = filePatterns[k]

NamesOfLines(text, k) ==
  UNION {Range(text[i].names) : i \in {j \in DOMAIN text : text[j].k = k}}

\* C23: after a scan pass that found exports, every environment variable the
\* scan discovered and the module text exports has its line
\* `export declare const NAME: string` in the declaration file.
C23_EveryEnvVarIsDeclared ==
  (passText.valid /\ fileCache # <<>>) =>
    \A name \in Range(envVars) \cap NamesOfLines(passText.text, "envconst") :
      name \in NamesOfLines(declarationContent, "declenv")


(***************************************************************************)
(* extractExportedItems alone, on texts with `export { ... }` lists        *)
(***************************************************************************)
T_data == <<"Promise", "Data">>

\* what the text declares under the name `load`
ListDecls ==
  { LocalDecl("decl", "load", TRUE, T_data),
    LocalDecl("decl", "load", FALSE, <<>>),
    LocalDecl("arrow", "load", TRUE, <<>>),
    LocalDecl("class", "load", FALSE, <<>>),
    LocalDecl("const", "load", FALSE, <<>>),
    TypedFunctionDecl("load", TRUE, T_data),
    NoStmt }

\* export { load }, export { load as fetchAll }, export { load, other }
ListForms ==
  { ExportList(<<"load">>, <<"load">>),
    ExportList(<<"load">>, <<"fetchAll">>),
    ExportList(<<"load", "other">>, <<"load", "other">>) }

ListTexts == {<<d, l>> : d \in ListDecls, l \in ListForms}

InitExtract ==
  /\ InitDisk
  /\ options \in ExtConfigs
  /\ InitExtIdle
  /\ InitViteIdle
  /\ InitAsyncIdle
  /\ fileText \in ListTexts
  /\ extracted = NoExtraction
  /\ InitEsbuildIdle
  /\ InitStoreIdle

\* the scan reads a file, transforms it and extracts its exported items
extractItems ==
  /\ ~extracted.done
  /\ extracted' =
       [done |-> TRUE,
        items |-> extractExportedItems(transformSvelteKitEnvImports(fileText),
                                       options.includeTypes)]
  /\ UNCHANGED <<diskVars, ghostVars, options, extVars, viteVars, scan, asyncVars,
                 fileText, esbuildVars, storeVars>>

NextExtract == extractItems

SpecExtract == InitExtract /\ [][NextExtract]_vars

\* the declarations of a name in a text, exported or not
DeclsNamed(text, name) ==
  {i \in DOMAIN text :
     /\ text[i].name = name
     /\ text[i].kind \in {"function", "class", "const", "local"}}

\* C24: for every name listed in an `export { a, b as c }` statement,
\* extraction (functions and classes included) yields exactly one item with
\* the exported name; it carries the async flag and return type of the
\* declaration of the local name when the text has a function declaration
\* for it, and is a placeholder otherwise.
C24_ExportListNamesAreKept ==
  (extracted.done /\ options.includeTypes.functions /\ options.includeTypes.classes) =>
    \A i \in {j \in DOMAIN fileText : fileText[j].kind = "exportlist"} :
      \A k \in DOMAIN fileText[i].names :
        LET named == SelectSeq(extracted.items,
                               LAMBDA item : item.name = fileText[i].alias[k])
            decls == DeclsNamed(fileText, fileText[i].names[k])
        IN /\ Len(named) = 1
           /\ \A d \in decls :
                (fileText[d].kind = "function"
                   \/ fileText[d].form \in {"decl", "arrow", "funcexpr"}) =>
                  /\ named[1].isAsync = fileText[d].isAsync
                  /\ fileText[d].returnType # <<>> =>
                       named[1].returnType = fileText[d].returnType


\* the bucket an item declared in file f belongs to: the file name without
\* its extension, or the folder, with the prefix and `_` in front when a
\* prefix is set, every character outside [a-zA-Z0-9_] replaced by `_`
ExpectedBucket(f, groupBy, groupPrefix) ==
  LET base == IF groupBy = "file" THEN StripExtension(f[Len(f)])
              ELSE PathString(SubSeq(f, 1, Len(f) - 1))
      named == IF groupPrefix # <<>> THEN groupPrefix \o <<"_">> \o base ELSE base
  IN [i \in DOMAIN named |-> IF named[i] \in WordChars THEN named[i] ELSE "_"]

\* the text grouped mode generates from the present cache
GroupedText(groupBy, groupPrefix) ==
  generateVirtualModuleContent(
    fileCache, envVars,
    [options EXCEPT !.exportStrategy = ExportStrategy("grouped", groupBy, groupPrefix)])

\* the cached files' exported names are pairwise distinct
DistinctExportNames ==
  \A i, j \in DOMAIN fileCache :
    i # j =>
      Range(ItemNames(extractExportedItems(fileCache[i].content, options.includeTypes)))
        \cap Range(ItemNames(extractExportedItems(fileCache[j].content,
                                                  options.includeTypes))) = {}

\* C25: in grouped mode, by file or by folder, with or without a prefix,
\* every exported name stands in exactly one bucket object, the one of its
\* declaring file or folder, and once in the flat export list.
C25_GroupedPlacesEachNameOnce ==
  fileCache # <<>> =>
    \A groupBy \in {"file", "folder"}, groupPrefix \in {<<>>, Str_api} :
      LET text == GroupedText(groupBy, groupPrefix)
      IN \A i \in DOMAIN fileCache :
           \A name \in Range(ItemNames(extractExportedItems(fileCache[i].content,
                                                           options.includeTypes))) :
             /\ Count(NamesOfKind(text, {"group"}), name) = 1
             /\ \E j \in DOMAIN text :
                  /\ text[j].k = "group"
                  /\ text[j].path = <<ExpectedBucket(fileCache[i].path, groupBy, groupPrefix)>>
                  /\ name \in Range(text[j].names)
             /\ Count(NamesOfKind(text, {"export"}), name) = 1


\* the text mixed mode generates from the present cache
MixedText == generateVirtualModuleContent(fileCache, envVars, WithMode(options, "mixed"))

\* C26: in mixed mode, when the export names are pairwise distinct, the
\* module text holds each import statement once, each flat export name once
\* and at most one `functions` object.
C26_MixedAddsOnlyBuckets ==
  (fileCache # <<>> /\ DistinctExportNames) =>
    /\ \A i, j \in DOMAIN MixedText :
         (MixedText[i].k = "import" /\ MixedText[j] = MixedText[i]) => i = j
    /\ \A name \in Range(NamesOfKind(MixedText, {"export"})) :
         Count(NamesOfKind(MixedText, {"export"}), name) = 1
    /\ Cardinality({i \in DOMAIN MixedText : MixedText[i].k = "functions"}) <= 1


\* the aggregates a full rescan of the present files can produce, one per
\* order in which glob may return the files of a directory
RescanResults ==
  {updateExportedFunctions(resolvedIncludeDirs, globs, disk) :
     globs \in GlobRuns(disk, resolvedIncludeDirs, options)}

\* C27: once every changed file has been handed to handleHotUpdate (and no
\* deleted file is left in the aggregate), exportedFunctions is, as an
\* ordered list, an aggregate that a full rescan of the present files
\* produces.
C27_HotUpdatesEqualRescan ==
  (/\ resolvedIncludeDirs # <<>>
   /\ pending = {}
   /\ \A i \in DOMAIN exportedFunctions : disk[exportedFunctions[i].path].exists) =>
    exportedFunctions \in RescanResults


\* C28: the text a load call returns is generated from the aggregate that the
\* scan pass awaited by this load call computed; no other pass and no hot
\* update changes exportedFunctions between that pass's assignment and the
\* generation of the text.
C28_LoadServesItsOwnPass ==
  [][loadResume =>
       /\ exportedFunctions = passes["load"].result
       /\ hookResult'.value =
            generateEnvImports(options.env.variables)
              \o generateAsyncFunctionsModule(passes["load"].result)]_vars

\* load has returned its text while the pass started by configResolved is
\* still in flight with another aggregate, computed from older file contents
C28_Witness ==
  /\ hookResult.hook = "load" /\ hookResult.defined
  /\ passes["configResolved"].phase = "assigning"
  /\ passes["configResolved"].result # exportedFunctions
  /\ \E f \in Files : Cardinality(versions[f]) > 1


(***************************************************************************)
(* esbuild plugin with cachedModuleContent (src/lib/triggerkit.ts)         *)
(***************************************************************************)
RECURSIVE LexicalOrder(_)
\* the paths of a set in lexical order
LexicalOrder(S) ==
  IF S = {} THEN <<>>
  ELSE LET first == CHOOSE p \in S : \A q \in S \ {p} : PathLess(p, q)
       IN <<first>> \o LexicalOrder(S \ {first})

RECURSIVE EnvVarsOfFiles(_, _, _)
\* the env-variable names imported by the files that can be read
EnvVarsOfFiles(files, d, env) ==
  IF files = <<>> THEN env
  ELSE EnvVarsOfFiles(
         Tail(files), d,
         IF ReadThrows(d, Head(files)) THEN env
         ELSE extractEnvironmentVariables(TextOf(d[Head(files)].text), env))

\* scanForFunctions(resolvedIncludeDirs, include, exclude): the matching files
\* of every include directory in lexical order, parsed; the env variables
\* they import
scanForFunctions(dirs, include, exclude, d) ==
  LET files == Flat([i \in DOMAIN dirs |->
                       IF existsSync(dirs[i])
                       THEN LexicalOrder(GlobSet(d, dirs[i], include, exclude))
                       ELSE <<>>])
  IN [exportedFunctions |-> ParseAll(files, d),
      discoveredEnvVars |-> EnvVarsOfFiles(files, d, <<>>)]

\* generateEntryModule(exportedFunctions, discoveredEnvVars): the env reads
\* first, then imports, exports and the functions object
generateEntryModule(functions, discoveredEnvVars) ==
  [i \in DOMAIN discoveredEnvVars |-> Line("envconst", <<discoveredEnvVars[i]>>, <<>>)]
    \o generateFunctionsModule(functions)

\* the module of the catch block: two comment/console lines and
\* `export const functions = {};`
FallbackModule ==
  <<Line("errorcomment", <<>>, <<>>), Line("consoleerror", <<>>, <<>>),
    Line("functions", <<>>, <<>>)>>

\* if (cachedModuleContent): null and '' are falsy
Truthy(content) == ~content.isNull /\ content.text # <<>>

EsbuildConfigs ==
  { ViteOptions(<<D_lib>>, V_default), ViteOptions(<<D_lib, D_server>>, V_default) }

InitEsbuild ==
  /\ InitDisk
  /\ options \in EsbuildConfigs
  /\ InitExtIdle
  /\ InitViteIdle
  /\ InitTasksIdle

\* a result of onLoad
LoadReturned(contents, scanned, fallback) ==
  [phase |-> "idle", returned |-> TRUE, contents |-> contents, scanned |-> scanned,
   fallback |-> fallback]

\* onLoad that never looks at cachedModuleContent
esbuildOnLoad_alwaysScans ==
  /\ esbuildLoad.phase = "idle"
  /\ esbuildLoad' = [NoEsbuildLoad EXCEPT !.phase = "scanning"]
  /\ UNCHANGED <<diskVars, ghostVars, options, extVars, viteVars, scan, asyncVars,
                 extractVars, cachedModuleContent, succeeded, storeVars>>

\* build.onLoad up to `await scanForFunctions(...)`: with cached content it
\* returns at once
esbuildOnLoad ==
  /\ esbuildLoad.phase = "idle"
  /\ esbuildLoad' = IF Truthy(cachedModuleContent)
                    THEN LoadReturned(cachedModuleContent.text, FALSE, FALSE)
                    ELSE [NoEsbuildLoad EXCEPT !.phase = "scanning"]
  /\ UNCHANGED <<diskVars, ghostVars, options, extVars, viteVars, scan, asyncVars,
                 extractVars, cachedModuleContent, succeeded, storeVars>>

\* the scan settles: its result is generated, cached and returned, or it
\* throws and the catch block returns the fallback module
esbuildScanSettles ==
  /\ esbuildLoad.phase = "scanning"
  /\ \/ \E found \in {scanForFunctions(options.includeDirs, options.include,
                                       options.exclude, disk)} :
          \E text \in {generateEntryModule(found.exportedFunctions,
                                           found.discoveredEnvVars)} :
            /\ cachedModuleContent' = Content(text)
            /\ esbuildLoad' = LoadReturned(text, TRUE, FALSE)
            /\ succeeded' = IF succeeded.isNull THEN Content(text) ELSE succeeded
     \/ /\ esbuildLoad' = LoadReturned(FallbackModule, TRUE, TRUE)
        /\ UNCHANGED <<cachedModuleContent, succeeded>>
  /\ UNCHANGED <<diskVars, ghostVars, options, extVars, viteVars, scan, asyncVars,
                 extractVars, storeVars>>

\* build.onEnd
esbuildOnEnd ==
  /\ esbuildLoad.phase = "idle"
  /\ cachedModuleContent' = NullContent
  /\ succeeded' = NullContent
  /\ esbuildLoad' = NoEsbuildLoad
  /\ UNCHANGED <<diskVars, ghostVars, options, extVars, viteVars, scan, asyncVars,
                 extractVars, storeVars>>

\* what a file is saved with while the plugin runs
PluginTextIds == {1, 5}

EditEsbuild ==
  /\ \/ \E f \in SourceFiles, t \in PluginTextIds : WriteFile(f, t)
     \/ \E f \in Files : RemoveFile(f)
  /\ UNCHANGED <<versions, options, extVars, viteVars, taskVars>>

NextEsbuild ==
  \/ esbuildOnLoad
  \/ esbuildScanSettles
  \/ esbuildOnEnd
  \/ EditEsbuild

SpecEsbuild == InitEsbuild /\ [][NextEsbuild]_vars

\* C29: after a load of this build has succeeded, a load returns that content
\* without scanning; when none has succeeded (first load, after onEnd, after
\* a failed scan) a load scans; onEnd leaves no cached content; a scan that
\* throws returns the fallback module with an empty `functions` object and
\* leaves the cache as it was.
C29_CacheLivesForOneBuild ==
  [][/\ (esbuildOnLoad /\ ~succeeded.isNull) =>
          /\ esbuildLoad'.returned /\ ~esbuildLoad'.scanned
          /\ esbuildLoad'.contents = succeeded.text
     /\ (esbuildOnLoad /\ succeeded.isNull) => esbuildLoad'.phase = "scanning"
     /\ esbuildOnEnd => cachedModuleContent'.isNull
     /\ (esbuildScanSettles /\ esbuildLoad'.fallback) =>
          /\ esbuildLoad'.contents = FallbackModule
          /\ cachedModuleContent' = cachedModuleContent
          /\ cachedModuleContent.isNull]_vars

\* a load was answered from the cache although the files have changed since
\* the scan of this build
C29_Witness ==
  /\ esbuildLoad.returned /\ ~esbuildLoad.scanned
  /\ edits > 0
  /\ esbuildLoad.contents
       # generateEntryModule(
           scanForFunctions(options.includeDirs, options.include, options.exclude,
                            disk).exportedFunctions,
           scanForFunctions(options.includeDirs, options.include, options.exclude,
                            disk).discoveredEnvVars)


(***************************************************************************)
(* build extension with the timestamped module store (part_007 101-235)    *)
(***************************************************************************)
\* Date.now() stays below this while the model runs
MaxTime == 5000

\* how far the clock moves between two steps, in ms
ClockSteps == {1000, 1001}

\* scanDirectories(includeDirs, include, exclude, context): one result per
\* matching file, with its exports and the env variables it imports
scanDirectories(dirs, include, exclude, d) ==
  LET files == Flat([i \in DOMAIN dirs |->
                       IF existsSync(dirs[i])
                       THEN LexicalOrder(GlobSet(d, dirs[i], include, exclude))
                       ELSE <<>>])
  IN [i \in DOMAIN files |->
        [exports |-> ParseAll(<<files[i]>>, d),
         envVars |-> EnvVarsOfFiles(<<files[i]>>, d, <<>>)]]

RECURSIVE AllEnvVars(_, _)
\* result.envVars.forEach(env => allEnvVars.add(env)) over the results
AllEnvVars(parseResults, allEnvVars) ==
  IF parseResults = <<>> THEN allEnvVars
  ELSE AllEnvVars(Tail(parseResults), Dedup(allEnvVars \o Head(parseResults).envVars))

\* allExports.push(...result.exports) over the results
AllExports(parseResults) ==
  Flat([i \in DOMAIN parseResults |-> parseResults[i].exports])

\* generateVirtualModule(allExports, Array.from(allEnvVars))
generateVirtualModule(allExports, allEnvVars) ==
  [i \in DOMAIN allEnvVars |-> Line("envconst", <<allEnvVars[i]>>, <<>>)]
    \o generateFunctionsModule(allExports)

\* virtualModuleStore.timestamp === 0 || currentTime - timestamp > 2000
IsStale(store, currentTime) ==
  store.timestamp = 0 \/ currentTime - store.timestamp > 2000

InitStore ==
  /\ InitDisk
  /\ options \in EsbuildConfigs
  /\ InitExtIdle
  /\ InitViteIdle
  /\ InitTasksIdle

\* time passes, also while a scan is awaited
clockTick ==
  /\ \E dt \in ClockSteps :
       /\ now + dt <= MaxTime
       /\ now' = now + dt
  /\ UNCHANGED <<diskVars, ghostVars, options, extVars, viteVars, scan, asyncVars,
                 extractVars, esbuildVars, virtualModuleStore, storeLoad, lastAttempt>>

\* build.onLoad up to `await scanDirectories(...)`: a fresh store is returned
\* at once
storeOnLoad ==
  /\ storeLoad.phase = "idle"
  /\ IF IsStale(virtualModuleStore, now)
     THEN /\ storeLoad' = [NoStoreLoad EXCEPT !.phase = "scanning", !.currentTime = now]
          /\ lastAttempt' = [lastAttempt EXCEPT !.time = now]
     ELSE /\ storeLoad' = [NoStoreLoad EXCEPT !.currentTime = now, !.returned = TRUE,
                                              !.contents = virtualModuleStore.modules]
          /\ UNCHANGED lastAttempt
  /\ UNCHANGED <<diskVars, ghostVars, options, extVars, viteVars, scan, asyncVars,
                 extractVars, esbuildVars, virtualModuleStore, now>>

\* the end of a load that scanned: store and returned contents
StoreSettled(modules, failed) ==
  /\ virtualModuleStore' = [timestamp |-> storeLoad.currentTime, modules |-> modules]
  /\ storeLoad' = [NoStoreLoad EXCEPT !.currentTime = storeLoad.currentTime,
                                      !.returned = TRUE, !.contents = modules,
                                      !.scanned = TRUE]
  /\ lastAttempt' = [lastAttempt EXCEPT !.failed = failed]

\* a catch block that leaves the timestamp alone
storeScanSettles_failureNotStamped ==
  /\ storeLoad.phase = "scanning"
  /\ \/ StoreSettled(
          Content(generateVirtualModule(
            AllExports(scanDirectories(options.includeDirs, options.include,
                                       options.exclude, disk)),
            AllEnvVars(scanDirectories(options.includeDirs, options.include,
                                       options.exclude, disk), <<>>))),
          FALSE)
     \/ /\ virtualModuleStore' = [virtualModuleStore EXCEPT !.modules = Content(FallbackModule)]
        /\ storeLoad' = [NoStoreLoad EXCEPT !.currentTime = storeLoad.currentTime,
                                            !.returned = TRUE,
                                            !.contents = Content(FallbackModule),
                                            !.scanned = TRUE]
        /\ lastAttempt' = [lastAttempt EXCEPT !.failed = TRUE]
  /\ UNCHANGED <<diskVars, ghostVars, options, extVars, viteVars, scan, asyncVars,
                 extractVars, esbuildVars, now>>

\* the scan settles: the generated module is stored under the load's
\* currentTime, or something in the try block throws and the fallback module
\* is stored under it
storeScanSettles ==
  /\ storeLoad.phase = "scanning"
  /\ \/ StoreSettled(
          Content(generateVirtualModule(
            AllExports(scanDirectories(options.includeDirs, options.include,
                                       options.exclude, disk)),
            AllEnvVars(scanDirectories(options.includeDirs, options.include,
                                       options.exclude, disk), <<>>))),
          FALSE)
     \/ StoreSettled(Content(FallbackModule), TRUE)
  /\ UNCHANGED <<diskVars, ghostVars, options, extVars, viteVars, scan, asyncVars,
                 extractVars, esbuildVars, now>>

EditStore ==
  /\ \/ \E f \in SourceFiles, t \in PluginTextIds : WriteFile(f, t)
     \/ \E f \in Files : RemoveFile(f)
  /\ UNCHANGED <<versions, options, extVars, viteVars, taskVars>>

NextStore ==
  \/ clockTick
  \/ storeOnLoad
  \/ storeScanSettles
  \/ EditStore

SpecStore == InitStore /\ [][NextStore]_vars

\* C30: a load scans exactly when no scan was attempted before or the last
\* attempt, failed or not, is more than 2000 ms old; a load that does not
\* scan returns the stored content and leaves the store alone; returned
\* content is never undefined; from a failed scan to the next settled scan
\* the store holds the fallback module.
C30_ScanIffStale ==
  [][/\ storeOnLoad =>
          /\ (storeLoad'.phase = "scanning")
               <=> (lastAttempt.time = 0 \/ now - lastAttempt.time > 2000)
          /\ storeLoad'.returned =>
               /\ storeLoad'.contents = virtualModuleStore.modules
               /\ virtualModuleStore' = virtualModuleStore
     /\ storeLoad'.returned => ~storeLoad'.contents.isNull
     /\ (lastAttempt'.failed /\ storeLoad'.phase # "scanning") =>
          virtualModuleStore'.modules = Content(FallbackModule)]_vars

\* 2000 ms after a failed scan a load is answered with the stored fallback
\* module, without a scan
C30_Witness ==
  /\ storeLoad.returned /\ ~storeLoad.scanned
  /\ lastAttempt.failed
  /\ storeLoad.currentTime - lastAttempt.time = 2000
  /\ storeLoad.contents = Content(FallbackModule)

====
